---- MODULE Spec2Model ----
(***************************************************************************)
(* util/netevent.c of unbound: the TCP accept listener with its pool of    *)
(* handler comm points, the length-prefixed TCP read and write paths, the  *)
(* local (IPC) comm point, and the control operations on them.             *)
(*                                                                         *)
(* A comm point is a record with the fields of struct comm_point that the  *)
(* code reads or writes.  Pointers to pooled handlers are indexes 1..num,  *)
(* NULL is 0.  The ldns_buffer is (data, pos, lim) with capacity BufSize.  *)
(* The libevent registration of a comm point is the record ev.             *)
(***************************************************************************)
EXTENDS Integers, Sequences, FiniteSets, TLC

\* ------------------------------------------------------------------ bounds
\* largest pool size (argument num of comm_point_create_tcp)
MaxPool == 2
\* connection attempts the clients make in one behaviour
MaxPending == 3
\* capacity of every handler buffer (argument bufsize)
BufSize == 13
\* what one peer sends on a connection: this many times at most, when the
\* framing is exercised and when the pool is
MaxSends == 2
PoolSends == 1
\* datagrams that wait on the UDP socket at the start, at most
MaxQueued == 102
\* datagrams that wait on the UDP socket in a run with replies
MaxDatagrams == 3
\* the longest timeout, in seconds, a caller asks for
MaxSec == 1
\* calls of comm_timer_set in one behaviour
MaxSets == 3
\* signals bound to one relay at most
MaxSignals == 3

\* ------------------------------------------------------- program constants
TCP_QUERY_TIMEOUT == 120
NUM_UDP_PER_SELECT == 100
LDNS_HEADER_SIZE == 12
PrefixSize == 2
NULL == 0
NoFd == -1
ListenFd == 3
LocalFd == 4
UdpFd == 5
RawFd == 6

NETEVENT_NOERROR == "NOERROR"
NETEVENT_CLOSED == "CLOSED"
NETEVENT_TIMEOUT == "TIMEOUT"

EV_READ == "EV_READ"
EV_WRITE == "EV_WRITE"
EV_TIMEOUT == "EV_TIMEOUT"
EV_PERSIST == "EV_PERSIST"

\* ------------------------------------------------------------------- bytes
Min(a, b) == IF a < b THEN a ELSE b

\* the two bytes of a uint16_t in network order, as htons lays them in memory
htons(n) == << (n \div 256) % 256, n % 256 >>

\* the wire form of one message: length prefix, then the payload
Frame(m) == htons(Len(m)) \o m

\* a payload of L distinct bytes
Msg(L) == [i \in 1..L |-> i]

Hello == <<104, 101, 108, 108, 111>>

Take(s, n) == SubSeq(s, 1, n)
Drop(s, n) == SubSeq(s, n + 1, Len(s))

\* ------------------------------------------------------------- ldns_buffer
ZeroData == [i \in 1..BufSize |-> 0]

\* memory of the buffer after bytes were stored at offset off
StoreAt(data, off, bytes) ==
    [i \in 1..Len(data) |->
        IF i > off /\ i <= off + Len(bytes) THEN bytes[i - off] ELSE data[i]]

ldns_buffer_new == [data |-> ZeroData, pos |-> 0, lim |-> BufSize]
ldns_buffer_capacity(b) == Len(b.data)
ldns_buffer_limit(b) == b.lim
ldns_buffer_remaining(b) == b.lim - b.pos
ldns_buffer_clear(b) == [b EXCEPT !.pos = 0, !.lim = Len(b.data)]
ldns_buffer_flip(b) == [b EXCEPT !.lim = b.pos, !.pos = 0]
ldns_buffer_skip(b, n) == [b EXCEPT !.pos = b.pos + n]
ldns_buffer_set_position(b, p) == [b EXCEPT !.pos = p]
ldns_buffer_set_limit(b, l) ==
    [b EXCEPT !.lim = l, !.pos = IF b.pos > l THEN l ELSE b.pos]
ldns_buffer_read_u16_at(b, at) == b.data[at + 1] * 256 + b.data[at + 2]

\* the bytes between offsets from and to of the buffer memory
BufBytes(b, from, to) == [i \in 1..(to - from) |-> b.data[from + i]]

\* what a callback reads: the bytes from position to limit
Readable(b) == BufBytes(b, b.pos, b.lim)

\* a buffer a callback has filled with the reply m and flipped
BufferWith(b, m) ==
    [data |-> StoreAt(b.data, 0, m), pos |-> 0, lim |-> Len(m)]

\* ---------------------------------------------------------------- libevent
NoEvent == [added |-> FALSE, events |-> {}, armed |-> FALSE, tv_sec |-> 0]
NoTimeval == [alloc |-> FALSE, tv_sec |-> 0]

event_set(events) ==
    [added |-> FALSE, events |-> events, armed |-> FALSE, tv_sec |-> 0]

\* event_add(ev, tv): tv NULL keeps the timeout the event has, if any
event_add(ev, tv) ==
    IF tv.alloc
    THEN [ev EXCEPT !.added = TRUE, !.armed = TRUE, !.tv_sec = tv.tv_sec]
    ELSE [ev EXCEPT !.added = TRUE]

event_del(ev) == [ev EXCEPT !.added = FALSE, !.armed = FALSE, !.tv_sec = 0]

\* ------------------------------------------------------------------- state
VARIABLES
    num,          \* max_tcp_count of the listener: its pool size
    have_writev,  \* the build: HAVE_WRITEV defined or not
    acc,          \* the TCP accept comm point (the listener)
    cp,           \* the pooled TCP handlers 1..num, and the local comm point
    open_fds,     \* descriptors open in the process
    pending,      \* connections waiting in the listen queue
    to_come,      \* connection attempts the clients have not made yet
    inq,          \* per comm point: bytes the peer sent, not yet received
    wire,         \* per comm point: bytes the kernel accepted for sending
    cb,           \* the upward callback being run, if any
    calls,        \* per comm point: callbacks made since its peer sent last
    sent,         \* per comm point: the reply handed to the write path
    written,      \* per comm point: completions of the write path for sent
    fed,          \* per comm point: what its peer sent last
    sends,        \* per comm point: how often its peer sent on the connection
    live,         \* handlers bound by accept and not reclaimed since
    udp,          \* the call of the UDP callback that is running, if any
    timer,        \* the comm_timer, with what the event base holds of it
    comsig        \* the comm_signal, with what the event base holds of it

vars == << num, have_writev, acc, cp, open_fds, pending, to_come, inq, wire,
           cb, calls, sent, written, fed, sends, live, udp, timer, comsig >>

Handlers == 1..num
LocalId == MaxPool + 2
UdpId == MaxPool + 3
OutId == MaxPool + 4
RawId == MaxPool + 5
Points == DOMAIN cp

NoCallback == [c |-> NULL, status |-> NETEVENT_NOERROR, reply |-> FALSE]
\* rep.srctype with rep.pktinfo: no interface information
NoTag == [srctype |-> 0, info |-> 0]
\* no control message goes with a send
NoCmsg == [level |-> "none", type |-> "none", data |-> 0]
\* no send call was made (calls: the send calls made, with fd, to, cmsg and
\* len their arguments, sent what the call returned, ret what the function
\* returned)
NoSend == [calls |-> 0, fd |-> NoFd, to |-> 0, cmsg |-> NoCmsg, len |-> 0,
           sent |-> 0, ret |-> 0]

\* what a send or receive call returns for the result r
Returned(r) == IF r.k = "ok" THEN r.n ELSE -1
\* the caller holds no copy of a reply context
NoReply == [held |-> FALSE, addr |-> 0, tag |-> NoTag]

\* No call of the UDP callback runs.  pc: "idle", "loop" (before a receive)
\* or "callback"; fd and i the argument and the counter of the running call;
\* recvs and cbs the receive calls and the callbacks of the last call; start
\* the datagrams that waited when it began; ancil whether the comm point was
\* created by comm_point_create_udp_ancil; addr and tag are rep.addr and
\* rep.srctype with rep.pktinfo; snd the send call made last; kept the copy of
\* the reply context the caller holds for a later comm_point_send_reply
NoUdpCall == [pc |-> "idle", ancil |-> FALSE, fd |-> NoFd, i |-> 0,
              recvs |-> 0, cbs |-> 0, start |-> 0,
              addr |-> 0, tag |-> NoTag, snd |-> NoSend, kept |-> NoReply]

\* What the peer sent last: on until a recv of it fails or the callback it
\* led to returns, bytes what it sent,
\* isecho and m when that was the wire form of the reply m come back, reads
\* the bytes each read event took (kept for the frame of Hello)
NoFed == [on |-> FALSE, bytes |-> << >>, isecho |-> FALSE, m |-> << >>,
          reads |-> << >>]

\* ------------------------------------------------------------------ timers
\* comm_timer_create: the timer is not enabled and the event base holds no
\* timeout of it.  enabled is ev_timer->enabled; pending tells that the
\* struct event of the timer is marked as added, regs is the number of
\* timeouts the event base holds for it, tv_sec the time it was added with;
\* incb tells that the callback of the timer runs; sets, calls and cancels
\* count the calls of comm_timer_set, the calls of the callback, and the
\* times an enabled timer was disabled or set anew
timer_created ==
    [ enabled |-> FALSE, pending |-> FALSE, regs |-> 0, tv_sec |-> 0,
      incb |-> FALSE, sets |-> 0, calls |-> 0, cancels |-> 0 ]

\* evtimer_del: takes the timeout out of the event base, if the event is
\* marked as added
evtimer_del(t) ==
    IF t.pending THEN [t EXCEPT !.pending = FALSE, !.regs = @ - 1] ELSE t

\* event_set on the struct event of the timer: the struct is filled in anew
\* and is not marked as added; what the event base holds is not touched
timer_event_set(t) == [t EXCEPT !.pending = FALSE]

\* evtimer_add: an event marked as added gets the new time, another is put
\* in the event base
evtimer_add(t, tv) ==
    IF t.pending THEN [t EXCEPT !.tv_sec = tv]
    ELSE [t EXCEPT !.pending = TRUE, !.regs = @ + 1, !.tv_sec = tv]

\* comm_timer_disable
comm_timer_disable(t) == [evtimer_del(t) EXCEPT !.enabled = FALSE]

\* a comm_timer_set that does not disable an enabled timer first
comm_timer_set_at_once(t, tv) ==
    [evtimer_add(timer_event_set(t), tv) EXCEPT !.enabled = TRUE]

\* comm_timer_set
comm_timer_set(t, tv) ==
    LET t1 == IF t.enabled THEN comm_timer_disable(t) ELSE t
    IN  [evtimer_add(timer_event_set(t1), tv) EXCEPT !.enabled = TRUE]

\* comm_timer_is_set
comm_timer_is_set(t) == IF t.enabled THEN 1 ELSE 0

\* ----------------------------------------------------------------- signals
\* the signals a caller binds: SIGHUP, SIGINT, SIGTERM
SignalNumbers == {1, 2, 15}

\* comm_signal_create: no signal is bound.  ev_signal is the list of entries,
\* the newest first, each with its signal; regs tells how often the event
\* base holds each signal for the relay; ret is what comm_signal_bind
\* returned last, got the signal the callback was called with last
signal_created ==
    [ exists |-> TRUE, ev_signal |-> << >>,
      regs |-> [s \in SignalNumbers |-> 0], ret |-> 1, got |-> 0 ]

\* what happens in comm_signal_bind: all goes well, calloc fails,
\* event_base_set fails, signal_add fails
BindOutcomes == {"ok", "nomem", "baseset", "add"}

\* a comm_signal_bind that links the entry also when signal_add failed
comm_signal_bind_linking(cs, sig, outcome) ==
    IF outcome = "ok"
    THEN [cs EXCEPT !.ev_signal = << sig >> \o @, !.regs[sig] = @ + 1,
                    !.ret = 1]
    ELSE IF outcome = "add"
    THEN [cs EXCEPT !.ev_signal = << sig >> \o @, !.ret = 0]
    ELSE [cs EXCEPT !.ret = 0]

\* comm_signal_bind(comsig, sig)
comm_signal_bind(cs, sig, outcome) ==
    IF outcome = "ok"
    THEN [cs EXCEPT !.ev_signal = << sig >> \o @, !.regs[sig] = @ + 1,
                    !.ret = 1]
    ELSE [cs EXCEPT !.ret = 0]

\* the entries of the list l that are for signal s
EntriesFor(l, s) == Cardinality({i \in 1..Len(l) : l[i] = s})

\* comm_signal_delete: signal_del and free for every entry of the list, then
\* the relay is freed
comm_signal_delete(cs) ==
    [cs EXCEPT !.exists = FALSE, !.ev_signal = << >>,
               !.regs = [s \in SignalNumbers |->
                            cs.regs[s] - EntriesFor(cs.ev_signal, s)]]

\* ------------------------------------------------------------- comm points
\* comm_point_create_tcp_handler: one pooled handler, linked in front of the
\* free list, next being the head before it
tcp_handler_created(next) ==
    [ type |-> "comm_tcp", fd |-> NoFd, buffer |-> ldns_buffer_new,
      timeout |-> [alloc |-> TRUE, tv_sec |-> 0],
      tcp_is_reading |-> FALSE, tcp_byte_count |-> 0, tcp_parent |-> TRUE,
      tcp_free |-> next, tcp_do_close |-> FALSE, do_not_close |-> FALSE,
      tcp_do_toggle_rw |-> TRUE, tcp_check_nb_connect |-> FALSE,
      ev |-> event_set({EV_PERSIST, EV_READ, EV_TIMEOUT}) ]

\* a comm_point_create_local that sets tcp_do_toggle_rw
local_created_toggling(fd) ==
    [ type |-> "comm_local", fd |-> fd, buffer |-> ldns_buffer_new,
      timeout |-> NoTimeval,
      tcp_is_reading |-> TRUE, tcp_byte_count |-> 0, tcp_parent |-> FALSE,
      tcp_free |-> NULL, tcp_do_close |-> FALSE, do_not_close |-> TRUE,
      tcp_do_toggle_rw |-> TRUE, tcp_check_nb_connect |-> FALSE,
      ev |-> event_add(event_set({EV_PERSIST, EV_READ}), NoTimeval) ]

\* comm_point_create_local
local_created(fd) ==
    [ type |-> "comm_local", fd |-> fd, buffer |-> ldns_buffer_new,
      timeout |-> NoTimeval,
      tcp_is_reading |-> TRUE, tcp_byte_count |-> 0, tcp_parent |-> FALSE,
      tcp_free |-> NULL, tcp_do_close |-> FALSE, do_not_close |-> TRUE,
      tcp_do_toggle_rw |-> FALSE, tcp_check_nb_connect |-> FALSE,
      ev |-> event_add(event_set({EV_PERSIST, EV_READ}), NoTimeval) ]

\* comm_point_create_udp, with a buffer of the caller
udp_created(fd) ==
    [ type |-> "comm_udp", fd |-> fd, buffer |-> ldns_buffer_new,
      timeout |-> NoTimeval,
      tcp_is_reading |-> FALSE, tcp_byte_count |-> 0, tcp_parent |-> FALSE,
      tcp_free |-> NULL, tcp_do_close |-> FALSE, do_not_close |-> FALSE,
      tcp_do_toggle_rw |-> FALSE, tcp_check_nb_connect |-> FALSE,
      ev |-> IF fd # NoFd
             THEN event_add(event_set({EV_READ, EV_PERSIST}), NoTimeval)
             ELSE event_set({EV_READ, EV_PERSIST}) ]

\* comm_point_create_raw(base, fd, writing, ...)
raw_created(fd, writing) ==
    [ type |-> "comm_raw", fd |-> fd, buffer |-> ldns_buffer_new,
      timeout |-> NoTimeval,
      tcp_is_reading |-> FALSE, tcp_byte_count |-> 0, tcp_parent |-> FALSE,
      tcp_free |-> NULL, tcp_do_close |-> FALSE, do_not_close |-> TRUE,
      tcp_do_toggle_rw |-> FALSE, tcp_check_nb_connect |-> FALSE,
      ev |-> event_add(event_set(IF writing THEN {EV_PERSIST, EV_WRITE}
                                 ELSE {EV_PERSIST, EV_READ}), NoTimeval) ]

\* comm_point_create_tcp_out: a TCP comm point for a connection of our own,
\* not added to the event base yet
tcp_out_created ==
    [ type |-> "comm_tcp", fd |-> NoFd, buffer |-> ldns_buffer_new,
      timeout |-> NoTimeval,
      tcp_is_reading |-> FALSE, tcp_byte_count |-> 0, tcp_parent |-> FALSE,
      tcp_free |-> NULL, tcp_do_close |-> FALSE, do_not_close |-> FALSE,
      tcp_do_toggle_rw |-> TRUE, tcp_check_nb_connect |-> TRUE,
      ev |-> event_set({EV_PERSIST, EV_WRITE}) ]

\* comm_point_create_tcp: the listener is added to the event base first, then
\* the n handlers are created, each pushed on the free list
tcp_created(fd, n) ==
    [ type |-> "comm_tcp_accept", fd |-> fd, timeout |-> NoTimeval,
      tcp_is_reading |-> FALSE, max_tcp_count |-> n,
      tcp_free |-> IF n = 0 THEN NULL ELSE n,
      ev |-> event_add(event_set({EV_READ, EV_PERSIST}), NoTimeval) ]

tcp_handlers_created(n) == [h \in 1..n |-> tcp_handler_created(h - 1)]

\* comm_point_stop_listening
comm_point_stop_listening(c) == [c EXCEPT !.ev = event_del(c.ev)]

\* a choice of direction that does not clear the direction asked for before
tcp_direction_adding(c) ==
    IF c.type = "comm_tcp"
    THEN c.ev.events
            \cup (IF c.tcp_is_reading THEN {EV_READ} ELSE {EV_WRITE})
    ELSE c.ev.events

\* the events a comm_tcp point asks for: one direction, by tcp_is_reading
tcp_direction(c) ==
    IF c.type = "comm_tcp"
    THEN (c.ev.events \ {EV_READ, EV_WRITE})
            \cup (IF c.tcp_is_reading THEN {EV_READ} ELSE {EV_WRITE})
    ELSE c.ev.events

\* a comm_point_start_listening that gives event_add the stored timeout
\* also when sec is 0
comm_point_start_listening_rearming(c, newfd, sec) ==
    IF c.type = "comm_tcp_accept" /\ c.tcp_free = NULL
    THEN c
    ELSE LET tmo == IF sec # -1 /\ sec # 0
                    THEN [alloc |-> TRUE, tv_sec |-> sec]
                    ELSE c.timeout
             evs == IF sec # -1 /\ sec # 0
                    THEN tcp_direction(c) \cup {EV_TIMEOUT}
                    ELSE tcp_direction(c)
         IN  [c EXCEPT !.timeout = tmo,
                       !.fd = IF newfd # NoFd THEN newfd ELSE c.fd,
                       !.ev = event_add([c.ev EXCEPT !.events = evs], tmo)]

\* comm_point_start_listening(c, newfd, sec); malloc is taken to succeed
comm_point_start_listening(c, newfd, sec) ==
    IF c.type = "comm_tcp_accept" /\ c.tcp_free = NULL
    THEN c
    ELSE LET tmo == IF sec # -1 /\ sec # 0
                    THEN [alloc |-> TRUE, tv_sec |-> sec]
                    ELSE c.timeout
             evs == IF sec # -1 /\ sec # 0
                    THEN tcp_direction(c) \cup {EV_TIMEOUT}
                    ELSE tcp_direction(c)
             tv  == IF sec = 0 THEN NoTimeval ELSE tmo
         IN  [c EXCEPT !.timeout = tmo,
                       !.fd = IF newfd # NoFd THEN newfd ELSE c.fd,
                       !.ev = event_add([c.ev EXCEPT !.events = evs], tv)]

\* descriptors comm_point_start_listening closes
start_listening_closes(c, newfd) ==
    IF c.type = "comm_tcp_accept" /\ c.tcp_free = NULL THEN {}
    ELSE IF newfd # NoFd /\ c.fd # NoFd THEN {c.fd} ELSE {}

\* a comm_point_close that leaves the descriptor number in the comm point
comm_point_close_keeps_fd(c) ==
    [c EXCEPT !.ev = IF c.fd # NoFd THEN event_del(c.ev) ELSE c.ev]

\* comm_point_close
comm_point_close(c) ==
    [c EXCEPT !.ev = IF c.fd # NoFd THEN event_del(c.ev) ELSE c.ev,
              !.fd = NoFd]

\* descriptors comm_point_close closes
close_closes(c) == IF c.fd # NoFd /\ ~c.do_not_close THEN {c.fd} ELSE {}

\* a setup_tcp_handler that leaves the direction the handler had
setup_tcp_handler_stale(c, fd) ==
    comm_point_start_listening(
        [c EXCEPT !.buffer = ldns_buffer_clear(c.buffer),
                  !.tcp_byte_count = 0],
        fd, TCP_QUERY_TIMEOUT)

\* a setup_tcp_handler that gives the handler no timeout
setup_tcp_handler_untimed(c, fd) ==
    comm_point_start_listening(
        [c EXCEPT !.buffer = ldns_buffer_clear(c.buffer),
                  !.tcp_is_reading = TRUE,
                  !.tcp_byte_count = 0],
        fd, 0)

\* setup_tcp_handler
setup_tcp_handler(c, fd) ==
    comm_point_start_listening(
        [c EXCEPT !.buffer = ldns_buffer_clear(c.buffer),
                  !.tcp_is_reading = TRUE,
                  !.tcp_byte_count = 0],
        fd, TCP_QUERY_TIMEOUT)

\* the handlers on the free list, from the head, following tcp_free at most
\* fuel times
RECURSIVE FreeWalk(_, _, _)
FreeWalk(head, f, fuel) ==
    IF head = NULL \/ fuel = 0
    THEN << >>
    ELSE << head >> \o FreeWalk(f[head].tcp_free, f, fuel - 1)

\* a reclaim_tcp_handler that puts c behind the last handler of the free list
reclaim_tcp_handler_at_tail(a, f, p) ==
    LET closed == comm_point_close(f[p])
        fl == FreeWalk(a.tcp_free, f, Cardinality(DOMAIN f) + 1)
        c  == [closed EXCEPT !.tcp_free = NULL]
    IN  IF closed.tcp_parent
        THEN IF fl = << >>
             THEN [ acc |-> comm_point_start_listening(
                                [a EXCEPT !.tcp_free = p], NoFd, -1),
                    cp  |-> [f EXCEPT ![p] = c] ]
             ELSE [ acc |-> a,
                    cp  |-> [f EXCEPT ![p] = c,
                                      ![fl[Len(fl)]].tcp_free = p] ]
        ELSE [acc |-> a, cp |-> [f EXCEPT ![p] = closed]]

\* a reclaim_tcp_handler that does not link the old free list behind c
reclaim_tcp_handler_unlinked(a, f, p) ==
    LET closed == comm_point_close(f[p])
    IN  IF closed.tcp_parent
        THEN LET c  == [closed EXCEPT !.tcp_free = NULL]
                 a1 == [a EXCEPT !.tcp_free = p]
             IN  [ acc |-> IF c.tcp_free = NULL
                           THEN comm_point_start_listening(a1, NoFd, -1)
                           ELSE a1,
                   cp  |-> [f EXCEPT ![p] = c] ]
        ELSE [acc |-> a, cp |-> [f EXCEPT ![p] = closed]]

\* a reclaim_tcp_handler that never makes the listener listen again
reclaim_tcp_handler_silent(a, f, p) ==
    LET closed == comm_point_close(f[p])
    IN  IF closed.tcp_parent
        THEN [ acc |-> [a EXCEPT !.tcp_free = p],
               cp  |-> [f EXCEPT ![p] =
                           [closed EXCEPT !.tcp_free = a.tcp_free]] ]
        ELSE [acc |-> a, cp |-> [f EXCEPT ![p] = closed]]

\* reclaim_tcp_handler(c) for c = f[p], with parent a: the listener and the
\* comm points after it
reclaim_tcp_handler(a, f, p) ==
    LET closed == comm_point_close(f[p])
    IN  IF closed.tcp_parent
        THEN LET c  == [closed EXCEPT !.tcp_free = a.tcp_free]
                 a1 == [a EXCEPT !.tcp_free = p]
             IN  [ acc |-> IF c.tcp_free = NULL
                           THEN comm_point_start_listening(a1, NoFd, -1)
                           ELSE a1,
                   cp  |-> [f EXCEPT ![p] = c] ]
        ELSE [acc |-> a, cp |-> [f EXCEPT ![p] = closed]]

FreeList == FreeWalk(acc.tcp_free, cp, num + 1)
FreeSet == {FreeList[i] : i \in 1..Len(FreeList)}

\* ------------------------------------------------------------ system calls
\* The result of recv, send or writev: "ok" with the byte count n (0 from recv
\* is an orderly shutdown), "again" for -1 with EINTR or EAGAIN, "err" for -1
\* with any other errno.
Again == [k |-> "again", n |-> 0]
Fatal == [k |-> "err", n |-> 0]
Ok(n) == [k |-> "ok", n |-> n]

\* recv of at most want bytes when q is what the peer sent and was not read
\* yet; the peer closes only after all it sent.  With split the kernel may
\* hand over any part of what is there, without split it hands over all.
RecvResults(q, want, split) ==
    {Again, Fatal} \cup
    (IF q = << >> \/ want <= 0
     THEN {Ok(0)}
     ELSE IF split THEN {Ok(n) : n \in 1..Min(want, Len(q))}
          ELSE {Ok(Min(want, Len(q)))})

\* send or writev of offered bytes
SendResults(offered, split) ==
    {Again, Fatal} \cup
    (IF offered <= 0 THEN {Ok(0)}
     ELSE IF split THEN {Ok(n) : n \in 1..offered} ELSE {Ok(offered)})

\* ----------------------------------------------------------- TCP read path
\* a tcp_callback_reader that leaves the comm point listening
tcp_callback_reader_listening(c) ==
    [c EXCEPT !.buffer = ldns_buffer_flip(c.buffer),
              !.tcp_is_reading =
                  IF c.tcp_do_toggle_rw THEN FALSE ELSE c.tcp_is_reading,
              !.tcp_byte_count = 0]

\* a tcp_callback_reader that does not flip the buffer
tcp_callback_reader_unflipped(c) ==
    LET c1 == [c EXCEPT !.tcp_is_reading =
                            IF c.tcp_do_toggle_rw THEN FALSE
                            ELSE c.tcp_is_reading,
                        !.tcp_byte_count = 0]
    IN  IF c1.type = "comm_tcp" THEN comm_point_stop_listening(c1) ELSE c1

\* tcp_callback_reader, up to the call of the callback
tcp_callback_reader(c) ==
    LET c1 == [c EXCEPT !.buffer = ldns_buffer_flip(c.buffer),
                        !.tcp_is_reading =
                            IF c.tcp_do_toggle_rw THEN FALSE
                            ELSE c.tcp_is_reading,
                        !.tcp_byte_count = 0]
    IN  IF c1.type = "comm_tcp" THEN comm_point_stop_listening(c1) ELSE c1

\* tcp_callback_reader, after the callback returned ret
tcp_callback_reader_return(c, ret) ==
    IF ret THEN comm_point_start_listening(c, NoFd, TCP_QUERY_TIMEOUT) ELSE c

\* a validation that refuses a length equal to the capacity
tcp_read_validate_tight(c, short_ok) ==
    IF ldns_buffer_read_u16_at(c.buffer, 0) >= ldns_buffer_capacity(c.buffer)
    THEN [next |-> "drop", c |-> c]
    ELSE LET c1 == [c EXCEPT !.buffer = ldns_buffer_set_limit(c.buffer,
                                ldns_buffer_read_u16_at(c.buffer, 0))]
         IN  IF ~short_ok /\ ldns_buffer_limit(c1.buffer) < LDNS_HEADER_SIZE
             THEN [next |-> "drop", c |-> c1]
             ELSE [next |-> "body", c |-> c1]

\* a validation that refuses short lengths whatever short_ok is
tcp_read_validate_never_short(c, short_ok) ==
    IF ldns_buffer_read_u16_at(c.buffer, 0) > ldns_buffer_capacity(c.buffer)
    THEN [next |-> "drop", c |-> c]
    ELSE LET c1 == [c EXCEPT !.buffer = ldns_buffer_set_limit(c.buffer,
                                ldns_buffer_read_u16_at(c.buffer, 0))]
         IN  IF ldns_buffer_limit(c1.buffer) < LDNS_HEADER_SIZE
             THEN [next |-> "drop", c |-> c1]
             ELSE [next |-> "body", c |-> c1]

\* the validation of the declared length, once both prefix bytes are stored:
\* "body" when the length is accepted, "drop" (return 0) when it is refused
tcp_read_validate(c, short_ok) ==
    IF ldns_buffer_read_u16_at(c.buffer, 0) > ldns_buffer_capacity(c.buffer)
    THEN [next |-> "drop", c |-> c]
    ELSE LET c1 == [c EXCEPT !.buffer = ldns_buffer_set_limit(c.buffer,
                                ldns_buffer_read_u16_at(c.buffer, 0))]
         IN  IF ~short_ok /\ ldns_buffer_limit(c1.buffer) < LDNS_HEADER_SIZE
             THEN [next |-> "drop", c |-> c1]
             ELSE [next |-> "body", c |-> c1]

\* comm_point_tcp_handle_read, the part that reads the length bytes, for the
\* result r of its recv.  next: "ret0" (return 0 after recv gave 0 or failed),
\* "drop" (return 0 for a refused length), "ret1" (return 1), "body" (go on
\* to read the message)
tcp_read_prefix(c, q, short_ok, r) ==
    IF r.k = "again" THEN [next |-> "ret1", c |-> c, q |-> q]
    ELSE IF r.k = "err" \/ r.n = 0 THEN [next |-> "ret0", c |-> c, q |-> q]
    ELSE LET c1 == [c EXCEPT
                      !.buffer.data = StoreAt(c.buffer.data, c.tcp_byte_count,
                                              Take(q, r.n)),
                      !.tcp_byte_count = c.tcp_byte_count + r.n]
             v  == tcp_read_validate(c1, short_ok)
         IN  IF c1.tcp_byte_count # PrefixSize
             THEN [next |-> "ret1", c |-> c1, q |-> Drop(q, r.n)]
             ELSE [next |-> v.next, c |-> v.c, q |-> Drop(q, r.n)]

\* a body read that stores what it received at the start of the buffer
tcp_read_body_at_start(c, q, r) ==
    IF r.k = "again" THEN [next |-> "ret1", c |-> c, q |-> q]
    ELSE IF r.k = "err" \/ r.n = 0 THEN [next |-> "ret0", c |-> c, q |-> q]
    ELSE LET c1 == [c EXCEPT
                      !.buffer = ldns_buffer_skip(
                          [c.buffer EXCEPT !.data =
                              StoreAt(c.buffer.data, 0, Take(q, r.n))],
                          r.n)]
         IN  [next |-> IF ldns_buffer_remaining(c1.buffer) <= 0
                       THEN "done" ELSE "ret1",
              c |-> c1, q |-> Drop(q, r.n)]

\* comm_point_tcp_handle_read, the part that reads the message, for the result
\* r of its recv.  next: "ret0", "ret1", or "done" (tcp_callback_reader is
\* called, then return 1)
tcp_read_body(c, q, r) ==
    IF r.k = "again" THEN [next |-> "ret1", c |-> c, q |-> q]
    ELSE IF r.k = "err" \/ r.n = 0 THEN [next |-> "ret0", c |-> c, q |-> q]
    ELSE LET c1 == [c EXCEPT
                      !.buffer = ldns_buffer_skip(
                          [c.buffer EXCEPT !.data =
                              StoreAt(c.buffer.data, c.buffer.pos, Take(q, r.n))],
                          r.n)]
         IN  [next |-> IF ldns_buffer_remaining(c1.buffer) <= 0
                       THEN "done" ELSE "ret1",
              c |-> c1, q |-> Drop(q, r.n)]

\* comm_point_tcp_handle_read: every outcome of one call, over the results of
\* its one or two recv calls
tcp_handle_read(c, q, short_ok, split) ==
    IF ~c.tcp_is_reading
    THEN {[next |-> "ret0", c |-> c, q |-> q]}
    ELSE IF c.tcp_byte_count < PrefixSize
    THEN UNION {
            LET s1 == tcp_read_prefix(c, q, short_ok, r1)
            IN  IF s1.next = "body"
                THEN {tcp_read_body(s1.c, s1.q, r2) :
                        r2 \in RecvResults(s1.q,
                                 ldns_buffer_remaining(s1.c.buffer), split)}
                ELSE {s1}
            : r1 \in RecvResults(q, PrefixSize - c.tcp_byte_count, split)}
    ELSE {tcp_read_body(c, q, r) :
            r \in RecvResults(q, ldns_buffer_remaining(c.buffer), split)}

\* comm_point_tcp_handle_read: the counts of remaining bytes with which one
\* call can issue the recv of the message, over the results of the recv of
\* the length bytes
BodyRecvs(c, q, short_ok, split) ==
    IF ~c.tcp_is_reading THEN {}
    ELSE IF c.tcp_byte_count < PrefixSize
    THEN {ldns_buffer_remaining(
              tcp_read_prefix(c, q, short_ok, r1).c.buffer) :
            r1 \in {r \in RecvResults(q, PrefixSize - c.tcp_byte_count, split) :
                      tcp_read_prefix(c, q, short_ok, r).next = "body"}}
    ELSE {ldns_buffer_remaining(c.buffer)}

\* ---------------------------------------------------------- TCP write path
\* a tcp_callback_writer that leaves tcp_byte_count as it is
tcp_callback_writer_counting(c) ==
    comm_point_start_listening(
        comm_point_stop_listening(
            [c EXCEPT !.buffer = ldns_buffer_clear(c.buffer),
                      !.tcp_is_reading =
                          IF c.tcp_do_toggle_rw THEN TRUE ELSE c.tcp_is_reading]),
        NoFd, -1)

\* a tcp_callback_writer that listens again without a timeout
tcp_callback_writer_untimed(c) ==
    comm_point_start_listening(
        comm_point_stop_listening(
            [c EXCEPT !.buffer = ldns_buffer_clear(c.buffer),
                      !.tcp_is_reading =
                          IF c.tcp_do_toggle_rw THEN TRUE ELSE c.tcp_is_reading,
                      !.tcp_byte_count = 0]),
        NoFd, 0)

\* tcp_callback_writer
tcp_callback_writer(c) ==
    comm_point_start_listening(
        comm_point_stop_listening(
            [c EXCEPT !.buffer = ldns_buffer_clear(c.buffer),
                      !.tcp_is_reading =
                          IF c.tcp_do_toggle_rw THEN TRUE ELSE c.tcp_is_reading,
                      !.tcp_byte_count = 0]),
        NoFd, -1)

\* the bytes the first system call of comm_point_tcp_handle_write offers:
\* with writev the rest of the length bytes and the whole message, without it
\* send() of the two length bytes from their start
tcp_write_offer(c, writev) ==
    IF writev
    THEN Drop(htons(ldns_buffer_limit(c.buffer)), c.tcp_byte_count)
            \o BufBytes(c.buffer, 0, ldns_buffer_limit(c.buffer))
    ELSE htons(ldns_buffer_limit(c.buffer))

\* comm_point_tcp_handle_write, the part that writes the length bytes, for
\* the result r of writev or send.  out: the bytes that went on the wire.
\* next: "ret0", "ret1", "body" (go on to send the message), "done"
\* (tcp_callback_writer was called, then return 1)
tcp_write_prefix(c, writev, r) ==
    IF r.k = "again" THEN [next |-> "ret1", c |-> c, out |-> << >>]
    ELSE IF r.k = "err" THEN [next |-> "ret0", c |-> c, out |-> << >>]
    ELSE LET out == Take(tcp_write_offer(c, writev), r.n)
             c1  == [c EXCEPT !.tcp_byte_count = c.tcp_byte_count + r.n]
             c2  == [c1 EXCEPT !.buffer = ldns_buffer_set_position(c1.buffer,
                                    c1.tcp_byte_count - PrefixSize)]
         IN  IF c1.tcp_byte_count < PrefixSize
             THEN [next |-> "ret1", c |-> c1, out |-> out]
             ELSE IF ldns_buffer_remaining(c2.buffer) = 0
             THEN [next |-> "done", c |-> tcp_callback_writer(c2), out |-> out]
             ELSE [next |-> "body", c |-> c2, out |-> out]

\* comm_point_tcp_handle_write, the part that sends the message, for the
\* result r of send
tcp_write_body(c, r) ==
    IF r.k = "again" THEN [next |-> "ret1", c |-> c, out |-> << >>]
    ELSE IF r.k = "err" THEN [next |-> "ret0", c |-> c, out |-> << >>]
    ELSE LET out == Take(BufBytes(c.buffer, c.buffer.pos, c.buffer.lim), r.n)
             c1  == [c EXCEPT !.buffer = ldns_buffer_skip(c.buffer, r.n)]
         IN  IF ldns_buffer_remaining(c1.buffer) = 0
             THEN [next |-> "done", c |-> tcp_callback_writer(c1), out |-> out]
             ELSE [next |-> "ret1", c |-> c1, out |-> out]

\* what SO_ERROR tells of a connect that was started non-blocking: 0, or
\* EINPROGRESS or EWOULDBLOCK, or another error
ConnectResults == {"connected", "inprogress", "failed"}

\* a check of the connect that takes a connect in progress for a failure
tcp_connect_check_strict(c, error) ==
    IF c.tcp_byte_count = 0 /\ c.tcp_check_nb_connect
    THEN IF error = "connected" THEN "write" ELSE "ret0"
    ELSE "write"

\* a check of the connect that goes on to write after a failed connect
tcp_connect_check_lenient(c, error) ==
    IF c.tcp_byte_count = 0 /\ c.tcp_check_nb_connect
    THEN IF error = "inprogress" THEN "ret1" ELSE "write"
    ELSE "write"

\* comm_point_tcp_handle_write, the check of a pending connect before the
\* first byte is written: "ret1" (try again later), "ret0", or "write" (go on)
tcp_connect_check(c, error) ==
    IF c.tcp_byte_count = 0 /\ c.tcp_check_nb_connect
    THEN IF error = "inprogress" THEN "ret1"
         ELSE IF error = "failed" THEN "ret0"
         ELSE "write"
    ELSE "write"

\* comm_point_tcp_handle_write from the first write on: every outcome, over
\* the results of its one or two system calls
tcp_handle_write_bytes(c, writev, split) ==
    IF c.tcp_byte_count < PrefixSize
    THEN UNION {
            LET s1 == tcp_write_prefix(c, writev, r1)
            IN  IF s1.next = "body"
                THEN {LET s2 == tcp_write_body(s1.c, r2)
                      IN  [s2 EXCEPT !.out = s1.out \o s2.out] :
                        r2 \in SendResults(
                                 ldns_buffer_remaining(s1.c.buffer), split)}
                ELSE {s1}
            : r1 \in SendResults(Len(tcp_write_offer(c, writev)), split)}
    ELSE {tcp_write_body(c, r) :
            r \in SendResults(ldns_buffer_remaining(c.buffer), split)}

\* comm_point_tcp_handle_write: every outcome of one call, over what the
\* check of the connect finds and the results of the system calls
tcp_handle_write(c, writev, split) ==
    IF c.tcp_is_reading
    THEN {[next |-> "ret0", c |-> c, out |-> << >>]}
    ELSE {[next |-> tcp_connect_check(c, e), c |-> c, out |-> << >>] :
                e \in {x \in ConnectResults :
                            tcp_connect_check(c, x) # "write"}}
         \cup tcp_handle_write_bytes(c, writev, split)

\* ----------------------------------------------------------------- history
Call(c, status, reply) ==
    [ status |-> status, reply |-> reply,
      data |-> IF status = NETEVENT_NOERROR THEN Readable(c.buffer) ELSE << >>,
      added |-> c.ev.added ]

\* the callback of comm point p is entered with status; reply tells whether a
\* reply context is passed
EnterCallback(p, c, status, reply) ==
    /\ cb' = [c |-> p, status |-> status, reply |-> reply]
    /\ calls' = [calls EXCEPT ![p] = Append(@, Call(c, status, reply))]

Idle == cb.c = NULL

\* the lowest descriptor above the listener's that is not open
NewFd == CHOOSE n \in (ListenFd + 1)..(ListenFd + Cardinality(open_fds) + 1) :
            /\ n \notin open_fds
            /\ \A m \in (ListenFd + 1)..(n - 1) : m \in open_fds

\* ------------------------------------------------------------- environment
\* what peers send and what callbacks reply, for a run of the listener with
\* its pool, and for a run that exercises the framing
PoolScripts == {Frame(Msg(LDNS_HEADER_SIZE))}
PoolReplies == {Msg(LDNS_HEADER_SIZE)}
FrameScripts ==
    {Frame(Hello), htons(BufSize + 1) \o <<7>>}
        \cup {Frame(Msg(L)) : L \in 0..BufSize}
FrameReplies == {<< >>, Hello, Msg(LDNS_HEADER_SIZE), Msg(BufSize)}

\* a client starts a connection to the listening socket
ClientConnect ==
    /\ Idle
    /\ to_come > 0
    /\ to_come' = to_come - 1
    /\ pending' = pending + 1
    /\ UNCHANGED << timer, comsig,
                    udp, num, have_writev, acc, cp, open_fds, inq, wire, cb, calls,
                    sent, written, fed, sends, live >>

\* the peer of comm point p sends the bytes s, if it sent less than most times
PeerSend(p, s, most) ==
    /\ Idle
    /\ cp[p].fd # NoFd
    /\ inq[p] = << >>
    /\ sends[p] < most
    /\ inq' = [inq EXCEPT ![p] = s]
    /\ fed' = [fed EXCEPT ![p] =
                    [on |-> TRUE, bytes |-> s, isecho |-> FALSE, m |-> << >>,
                     reads |-> << >>]]
    /\ calls' = [calls EXCEPT ![p] = << >>]
    /\ sends' = [sends EXCEPT ![p] = @ + 1]
    /\ UNCHANGED << timer, comsig,
                    udp, num, have_writev, acc, cp, open_fds, pending, to_come,
                    wire, cb, sent, written, live >>

\* the peer of comm point p sends back the bytes it got for the last reply,
\* once the write path has completed it
PeerEcho(p, most) ==
    /\ Idle
    /\ cp[p].fd # NoFd
    /\ inq[p] = << >>
    /\ sends[p] < most
    /\ written[p] > 0
    /\ wire[p] # << >>
    /\ inq' = [inq EXCEPT ![p] = wire[p]]
    /\ fed' = [fed EXCEPT ![p] =
                    [on |-> TRUE, bytes |-> wire[p], isecho |-> TRUE,
                     m |-> sent[p], reads |-> << >>]]
    /\ calls' = [calls EXCEPT ![p] = << >>]
    /\ sends' = [sends EXCEPT ![p] = @ + 1]
    /\ UNCHANGED << timer, comsig,
                    udp, num, have_writev, acc, cp, open_fds, pending, to_come,
                    wire, cb, sent, written, live >>

\* ----------------------------------------------------------------- actions
\* an accept callback that unlinks the head of the free list before it looks
\* at what accept() returned
comm_point_tcp_accept_callback_unlinking(outcome) ==
    /\ Idle
    /\ acc.ev.added /\ EV_READ \in acc.ev.events
    /\ pending > 0
    /\ \/ /\ acc.tcp_free = NULL
          /\ outcome = "again"
          /\ UNCHANGED vars
       \/ /\ acc.tcp_free # NULL
          /\ outcome = "again"
          /\ UNCHANGED vars
       \/ /\ acc.tcp_free # NULL
          /\ outcome = "lost"
          /\ pending' = pending - 1
          /\ acc' = [acc EXCEPT !.tcp_free = cp[acc.tcp_free].tcp_free]
          /\ UNCHANGED << timer, comsig,
                          udp, num, have_writev, cp, open_fds, to_come, inq,
                          wire, cb, calls, sent, written, fed, sends, live >>
       \/ /\ acc.tcp_free # NULL
          /\ outcome = "ok"
          /\ LET c_hdl == acc.tcp_free
                 a1 == [acc EXCEPT !.tcp_free = cp[c_hdl].tcp_free]
             IN  /\ acc' = IF a1.tcp_free = NULL
                           THEN comm_point_stop_listening(a1) ELSE a1
                 /\ cp' = [cp EXCEPT ![c_hdl] =
                             setup_tcp_handler(cp[c_hdl], NewFd)]
                 /\ open_fds' = (open_fds
                         \ start_listening_closes(cp[c_hdl], NewFd))
                         \cup {NewFd}
                 /\ pending' = pending - 1
                 /\ inq' = [inq EXCEPT ![c_hdl] = << >>]
                 /\ wire' = [wire EXCEPT ![c_hdl] = << >>]
                 /\ calls' = [calls EXCEPT ![c_hdl] = << >>]
                 /\ sent' = [sent EXCEPT ![c_hdl] = << >>]
                 /\ written' = [written EXCEPT ![c_hdl] = 0]
                 /\ fed' = [fed EXCEPT ![c_hdl] = NoFed]
                 /\ sends' = [sends EXCEPT ![c_hdl] = 0]
                 /\ live' = live \cup {c_hdl}
                 /\ UNCHANGED << timer, comsig,
                                 udp, num, have_writev, to_come, cb >>

\* comm_point_tcp_accept_callback with EV_READ, for the outcome of accept():
\* "ok" (a new descriptor), "again" (-1, nothing taken from the queue), "lost"
\* (-1, the connection that waited is gone)
comm_point_tcp_accept_callback(outcome) ==
    /\ Idle
    /\ acc.ev.added /\ EV_READ \in acc.ev.events
    /\ pending > 0
    /\ \/ /\ acc.tcp_free = NULL
          /\ outcome = "again"
          /\ UNCHANGED vars
       \/ /\ acc.tcp_free # NULL
          /\ outcome = "again"
          /\ UNCHANGED vars
       \/ /\ acc.tcp_free # NULL
          /\ outcome = "lost"
          /\ pending' = pending - 1
          /\ UNCHANGED << timer, comsig,
                          udp, num, have_writev, acc, cp, open_fds, to_come, inq,
                          wire, cb, calls, sent, written, fed, sends, live >>
       \/ /\ acc.tcp_free # NULL
          /\ outcome = "ok"
          /\ LET c_hdl == acc.tcp_free
                 a1 == [acc EXCEPT !.tcp_free = cp[c_hdl].tcp_free]
             IN  /\ acc' = IF a1.tcp_free = NULL
                           THEN comm_point_stop_listening(a1) ELSE a1
                 /\ cp' = [cp EXCEPT ![c_hdl] =
                             setup_tcp_handler(cp[c_hdl], NewFd)]
                 /\ open_fds' = (open_fds
                         \ start_listening_closes(cp[c_hdl], NewFd))
                         \cup {NewFd}
                 /\ pending' = pending - 1
                 /\ inq' = [inq EXCEPT ![c_hdl] = << >>]
                 /\ wire' = [wire EXCEPT ![c_hdl] = << >>]
                 /\ calls' = [calls EXCEPT ![c_hdl] = << >>]
                 /\ sent' = [sent EXCEPT ![c_hdl] = << >>]
                 /\ written' = [written EXCEPT ![c_hdl] = 0]
                 /\ fed' = [fed EXCEPT ![c_hdl] = NoFed]
                 /\ sends' = [sends EXCEPT ![c_hdl] = 0]
                 /\ live' = live \cup {c_hdl}
                 /\ UNCHANGED << timer, comsig,
                                 udp, num, have_writev, to_come, cb >>

\* an end of connection that calls the callback and leaves the handler as it
\* is, not reclaimed
tcp_handler_ended_kept(p, c, status, f) ==
    /\ acc' = acc
    /\ cp' = [cp EXCEPT ![p] = c]
    /\ open_fds' = open_fds
    /\ inq' = [inq EXCEPT ![p] = << >>]
    /\ wire' = [wire EXCEPT ![p] = << >>]
    /\ sent' = [sent EXCEPT ![p] = << >>]
    /\ written' = [written EXCEPT ![p] = 0]
    /\ fed' = f
    /\ sends' = [sends EXCEPT ![p] = 0]
    /\ live' = live \ {p}
    /\ IF ~c.tcp_do_close
       THEN EnterCallback(p, c, status, FALSE)
       ELSE UNCHANGED << cb, calls >>

\* an end of connection that calls the callback whatever tcp_do_close is
tcp_handler_ended_loud(p, c, status, f) ==
    LET r == reclaim_tcp_handler(acc, [cp EXCEPT ![p] = c], p)
    IN  /\ acc' = r.acc
        /\ cp' = r.cp
        /\ open_fds' = open_fds \ close_closes(c)
        /\ inq' = [inq EXCEPT ![p] = << >>]
        /\ wire' = [wire EXCEPT ![p] = << >>]
        /\ sent' = [sent EXCEPT ![p] = << >>]
        /\ written' = [written EXCEPT ![p] = 0]
        /\ fed' = f
        /\ sends' = [sends EXCEPT ![p] = 0]
        /\ live' = live \ {p}
        /\ EnterCallback(p, r.cp[p], status, FALSE)

\* comm_point_tcp_handle_callback after a read, a write or a timeout ended the
\* connection of handler p, c being the handler then: reclaim it, then call
\* the callback with status unless tcp_do_close is set; what is recorded of
\* the connection is dropped, f being what is kept of what the peers sent
tcp_handler_ended(p, c, status, f) ==
    LET r == reclaim_tcp_handler(acc, [cp EXCEPT ![p] = c], p)
    IN  /\ acc' = r.acc
        /\ cp' = r.cp
        /\ open_fds' = open_fds \ close_closes(c)
        /\ inq' = [inq EXCEPT ![p] = << >>]
        /\ wire' = [wire EXCEPT ![p] = << >>]
        /\ sent' = [sent EXCEPT ![p] = << >>]
        /\ written' = [written EXCEPT ![p] = 0]
        /\ fed' = f
        /\ sends' = [sends EXCEPT ![p] = 0]
        /\ live' = live \ {p}
        /\ IF ~c.tcp_do_close
           THEN EnterCallback(p, r.cp[p], status, FALSE)
           ELSE UNCHANGED << cb, calls >>

\* tcp_callback_reader called for comm point p, c being the comm point with
\* the whole message in its buffer and q what is left to receive
tcp_message_read(p, c, q) ==
    /\ cp' = [cp EXCEPT ![p] = tcp_callback_reader(c)]
    /\ inq' = [inq EXCEPT ![p] = q]
    /\ EnterCallback(p, tcp_callback_reader(c), NETEVENT_NOERROR, TRUE)

\* fed[p] after a read event left q to receive
FedRead(p, q) ==
    IF fed[p].on /\ fed[p].bytes = Frame(Hello) /\ Len(q) < Len(inq[p])
    THEN [fed EXCEPT ![p].reads = Append(@, Len(inq[p]) - Len(q))]
    ELSE fed

\* comm_point_tcp_handle_callback(fd, EV_READ, p) for a pooled handler p
tcp_handle_callback_read(p, split) ==
    \E s \in tcp_handle_read(cp[p], inq[p], FALSE, split) :
        \/ /\ s.next = "ret1"
           /\ cp' = [cp EXCEPT ![p] = s.c]
           /\ inq' = [inq EXCEPT ![p] = s.q]
           /\ fed' = FedRead(p, s.q)
           /\ UNCHANGED << timer, comsig,
                           udp, num, have_writev, acc, open_fds, pending, to_come,
                           wire, cb, calls, sent, written, sends, live >>
        \/ /\ s.next = "done"
           /\ tcp_message_read(p, s.c, s.q)
           /\ fed' = FedRead(p, s.q)
           /\ UNCHANGED << timer, comsig,
                           udp, num, have_writev, acc, open_fds, pending, to_come,
                           wire, sent, written, sends, live >>
        \/ /\ s.next = "drop"
           /\ tcp_handler_ended(p, s.c, NETEVENT_CLOSED, FedRead(p, s.q))
           /\ UNCHANGED << timer, comsig,
                           udp, num, have_writev, pending, to_come >>
        \/ /\ s.next = "ret0"
           /\ tcp_handler_ended(p, s.c, NETEVENT_CLOSED,
                                [fed EXCEPT ![p] = NoFed])
           /\ UNCHANGED << timer, comsig,
                           udp, num, have_writev, pending, to_come >>

\* comm_point_tcp_handle_callback(fd, EV_WRITE, p) for a pooled handler p
tcp_handle_callback_write(p, split) ==
    \E s \in tcp_handle_write(cp[p], have_writev, split) :
        \/ /\ s.next \in {"ret1", "done"}
           /\ cp' = [cp EXCEPT ![p] = s.c]
           /\ wire' = [wire EXCEPT ![p] = @ \o s.out]
           /\ written' = [written EXCEPT ![p] =
                             IF s.next = "done" THEN @ + 1 ELSE @]
           /\ UNCHANGED << timer, comsig,
                           udp, num, have_writev, acc, open_fds, pending,
                           to_come, inq, cb, calls, sent, fed, sends, live >>
        \/ /\ s.next = "ret0"
           /\ tcp_handler_ended(p, s.c, NETEVENT_CLOSED,
                                [fed EXCEPT ![p] = NoFed])
           /\ UNCHANGED << timer, comsig,
                           udp, num, have_writev, pending, to_come >>

\* a timeout branch that reports NETEVENT_CLOSED
tcp_handle_callback_timeout_closed(p) ==
    /\ cp[p].ev.armed
    /\ tcp_handler_ended(p, [cp[p] EXCEPT !.ev = event_del(@)],
                         NETEVENT_CLOSED, [fed EXCEPT ![p] = NoFed])
    /\ UNCHANGED << timer, comsig,
                    udp, num, have_writev, pending, to_come >>

\* comm_point_tcp_handle_callback(fd, EV_TIMEOUT, p) for a pooled handler p;
\* the event base has removed the event whose timeout passed
tcp_handle_callback_timeout(p) ==
    /\ cp[p].ev.armed
    /\ tcp_handler_ended(p, [cp[p] EXCEPT !.ev = event_del(@)],
                         NETEVENT_TIMEOUT, [fed EXCEPT ![p] = NoFed])
    /\ UNCHANGED << timer, comsig,
                    udp, num, have_writev, pending, to_come >>

\* comm_point_tcp_handle_callback(fd, event, p) for a TCP comm point p: the
\* event base calls it with an event the handler is added for
comm_point_tcp_handle_callback(p, event, split) ==
    /\ Idle
    /\ p \in Points
    /\ cp[p].type = "comm_tcp"
    /\ cp[p].ev.added
    /\ event \in cp[p].ev.events
    /\ IF event = EV_READ THEN tcp_handle_callback_read(p, split)
       ELSE IF event = EV_WRITE THEN tcp_handle_callback_write(p, split)
       ELSE event = EV_TIMEOUT /\ tcp_handle_callback_timeout(p)

\* comm_point_local_handle_callback with EV_READ for the local comm point
comm_point_local_handle_callback(split) ==
    /\ Idle
    /\ LocalId \in Points
    /\ cp[LocalId].ev.added
    /\ EV_READ \in cp[LocalId].ev.events
    /\ \E s \in tcp_handle_read(cp[LocalId], inq[LocalId], TRUE, split) :
        \/ /\ s.next = "ret1"
           /\ cp' = [cp EXCEPT ![LocalId] = s.c]
           /\ inq' = [inq EXCEPT ![LocalId] = s.q]
           /\ fed' = FedRead(LocalId, s.q)
           /\ UNCHANGED << cb, calls >>
        \/ /\ s.next = "done"
           /\ tcp_message_read(LocalId, s.c, s.q)
           /\ fed' = FedRead(LocalId, s.q)
        \/ /\ s.next = "drop"
           /\ cp' = [cp EXCEPT ![LocalId] = s.c]
           /\ inq' = [inq EXCEPT ![LocalId] = s.q]
           /\ fed' = FedRead(LocalId, s.q)
           /\ EnterCallback(LocalId, s.c, NETEVENT_CLOSED, FALSE)
        \/ /\ s.next = "ret0"
           /\ cp' = [cp EXCEPT ![LocalId] = s.c]
           /\ inq' = [inq EXCEPT ![LocalId] = s.q]
           /\ fed' = [fed EXCEPT ![LocalId] = NoFed]
           /\ EnterCallback(LocalId, s.c, NETEVENT_CLOSED, FALSE)
    /\ UNCHANGED << timer, comsig,
                    udp, num, have_writev, acc, open_fds, pending, to_come, wire,
                    sent, written, sends, live >>

\* the callback of a completed message returns true: for a TCP handler it has
\* put the reply m in the buffer; the comm point listens again
callback_returns_true(m) ==
    /\ cb.c # NULL
    /\ cb.status = NETEVENT_NOERROR
    /\ LET p == cb.c
           c == IF cp[p].type = "comm_tcp"
                THEN [cp[p] EXCEPT !.buffer = BufferWith(cp[p].buffer, m)]
                ELSE cp[p]
       IN  /\ cp' = [cp EXCEPT ![p] = tcp_callback_reader_return(c, TRUE)]
           /\ sent' = [sent EXCEPT ![p] = m]
           /\ wire' = [wire EXCEPT ![p] = << >>]
           /\ written' = [written EXCEPT ![p] = 0]
    /\ cb' = NoCallback
    /\ fed' = [fed EXCEPT ![cb.c] = NoFed]
    /\ UNCHANGED << timer, comsig,
                    udp, num, have_writev, acc, open_fds, pending, to_come, inq,
                    calls, sends, live >>

\* a callback returns false, or returns from a CLOSED or TIMEOUT call, whose
\* result is not looked at; with the connection gone its calls are forgotten
callback_returns_false ==
    /\ cb.c # NULL
    /\ cp[cb.c].type = "comm_tcp" \/ cb.status = NETEVENT_NOERROR
    /\ cp' = [cp EXCEPT ![cb.c] = tcp_callback_reader_return(cp[cb.c], FALSE)]
    /\ cb' = NoCallback
    /\ fed' = [fed EXCEPT ![cb.c] = NoFed]
    /\ calls' = IF cb.status = NETEVENT_NOERROR THEN calls
                ELSE [calls EXCEPT ![cb.c] = << >>]
    /\ UNCHANGED << timer, comsig,
                    udp, num, have_writev, acc, open_fds, pending, to_come, inq,
                    wire, sent, written, sends, live >>

\* the callback of the local comm point, told that its peer is gone, calls
\* comm_point_close on it before it returns
callback_closes_local ==
    /\ cb.c = LocalId
    /\ cb.status = NETEVENT_CLOSED
    /\ cp' = [cp EXCEPT ![LocalId] = comm_point_close(cp[LocalId])]
    /\ open_fds' = open_fds \ close_closes(cp[LocalId])
    /\ inq' = [inq EXCEPT ![LocalId] = << >>]
    /\ cb' = NoCallback
    /\ fed' = [fed EXCEPT ![LocalId] = NoFed]
    /\ UNCHANGED << timer, comsig,
                    udp, num, have_writev, acc, pending, to_come, wire, calls,
                    sent, written, sends, live >>

\* comm_point_send_reply on the reply context of handler p, whose callback
\* returned false before; the caller has put the reply m in the buffer
comm_point_send_reply(p, m) ==
    /\ Idle
    /\ p \in Handlers
    /\ cp[p].fd # NoFd /\ ~cp[p].ev.added /\ ~cp[p].tcp_is_reading
    /\ cp' = [cp EXCEPT ![p] = comm_point_start_listening(
                    [cp[p] EXCEPT !.buffer = BufferWith(cp[p].buffer, m)],
                    NoFd, TCP_QUERY_TIMEOUT)]
    /\ sent' = [sent EXCEPT ![p] = m]
    /\ wire' = [wire EXCEPT ![p] = << >>]
    /\ written' = [written EXCEPT ![p] = 0]
    /\ UNCHANGED << timer, comsig,
                    udp, num, have_writev, acc, open_fds, pending, to_come, inq,
                    cb, calls, fed, sends, live >>

\* a comm_point_drop_reply without the test for comm_udp: the UDP comm point
\* goes to reclaim_tcp_handler, which closes it
comm_point_drop_reply_any_type(p) ==
    /\ Idle
    /\ \/ /\ p = NULL
          /\ UNCHANGED vars
       \/ /\ p \in Points
          /\ cp[p].type = "comm_udp"
          /\ cp' = [cp EXCEPT ![p] = comm_point_close(cp[p])]
          /\ open_fds' = open_fds \ close_closes(cp[p])
          /\ UNCHANGED << timer, comsig,
                          udp, num, have_writev, acc, pending, to_come, inq, wire,
                          cb, calls, sent, written, fed, sends, live >>
       \/ /\ p \in Handlers
          /\ p \notin FreeSet
          /\ LET r == reclaim_tcp_handler(acc, cp, p)
             IN  /\ acc' = r.acc
                 /\ cp' = r.cp
          /\ open_fds' = open_fds \ close_closes(cp[p])
          /\ inq' = [inq EXCEPT ![p] = << >>]
          /\ wire' = [wire EXCEPT ![p] = << >>]
          /\ sent' = [sent EXCEPT ![p] = << >>]
          /\ written' = [written EXCEPT ![p] = 0]
          /\ fed' = [fed EXCEPT ![p] = NoFed]
          /\ calls' = [calls EXCEPT ![p] = << >>]
          /\ sends' = [sends EXCEPT ![p] = 0]
          /\ live' = live \ {p}
          /\ UNCHANGED << timer, comsig,
                          udp, num, have_writev, pending, to_come, cb >>

\* comm_point_drop_reply(repinfo), p being repinfo->c or NULL for no repinfo:
\* nothing for NULL and for the UDP comm point, reclaim_tcp_handler for a
\* handler p that is not free; what is recorded of its connection is dropped
comm_point_drop_reply(p) ==
    /\ Idle
    /\ \/ /\ p = NULL
          /\ UNCHANGED vars
       \/ /\ p \in Points
          /\ cp[p].type = "comm_udp"
          /\ UNCHANGED vars
       \/ /\ p \in Handlers
          /\ p \notin FreeSet
          /\ LET r == reclaim_tcp_handler(acc, cp, p)
             IN  /\ acc' = r.acc
                 /\ cp' = r.cp
          /\ open_fds' = open_fds \ close_closes(cp[p])
          /\ inq' = [inq EXCEPT ![p] = << >>]
          /\ wire' = [wire EXCEPT ![p] = << >>]
          /\ sent' = [sent EXCEPT ![p] = << >>]
          /\ written' = [written EXCEPT ![p] = 0]
          /\ fed' = [fed EXCEPT ![p] = NoFed]
          /\ calls' = [calls EXCEPT ![p] = << >>]
          /\ sends' = [sends EXCEPT ![p] = 0]
          /\ live' = live \ {p}
          /\ UNCHANGED << timer, comsig,
                          udp, num, have_writev, pending, to_come, cb >>

\* comm_point_drop_reply(repinfo) called by the callback of handler p, which
\* is repinfo->c, when it is told of the end of the connection with CLOSED or
\* TIMEOUT: comm_point_tcp_handle_callback has reclaimed p before the call,
\* and reclaim_tcp_handler is done on it once more
comm_point_drop_reply_when_ended(p) ==
    /\ p \in Handlers
    /\ cb.c = p
    /\ cb.status # NETEVENT_NOERROR
    /\ LET r == reclaim_tcp_handler(acc, cp, p)
       IN  /\ acc' = r.acc
           /\ cp' = r.cp
    /\ open_fds' = open_fds \ close_closes(cp[p])
    /\ UNCHANGED << timer, comsig, udp, num, have_writev, pending, to_come,
                    inq, wire, cb, calls, sent, written, fed, sends, live >>

\* comm_point_close called on handler p while it has a connection; what is
\* recorded of the connection is dropped
call_comm_point_close(p) ==
    /\ Idle
    /\ p \in Handlers
    /\ cp[p].fd # NoFd
    /\ cp' = [cp EXCEPT ![p] = comm_point_close(cp[p])]
    /\ open_fds' = open_fds \ close_closes(cp[p])
    /\ inq' = [inq EXCEPT ![p] = << >>]
    /\ wire' = [wire EXCEPT ![p] = << >>]
    /\ sent' = [sent EXCEPT ![p] = << >>]
    /\ written' = [written EXCEPT ![p] = 0]
    /\ fed' = [fed EXCEPT ![p] = NoFed]
    /\ calls' = [calls EXCEPT ![p] = << >>]
    /\ sends' = [sends EXCEPT ![p] = 0]
    /\ UNCHANGED << timer, comsig,
                    udp, num, have_writev, acc, pending, to_come, cb, live >>

\* a comm_point_delete of the listener that leaves its handlers alone
tcp_handlers_deleted_shallow(f, n) == f

\* comm_point_delete of a listener, the loop over tcp_handlers: each of the n
\* handlers in f is closed by comm_point_delete before it is freed
tcp_handlers_deleted(f, n) ==
    [p \in DOMAIN f |-> IF p \in 1..n THEN comm_point_close(f[p]) ELSE f[p]]

\* the owner calls comm_point_delete on the listener, outside of callbacks:
\* the listener is closed, then its handlers; the connections that waited
\* on the listening socket are gone with it
call_comm_point_delete ==
    /\ Idle
    /\ acc.fd # NoFd
    /\ acc' = comm_point_close(acc)
    /\ cp' = tcp_handlers_deleted(cp, acc.max_tcp_count)
    /\ open_fds' = {fd \in open_fds :
                        \E q \in Points : cp'[q].fd = fd}
    /\ pending' = 0
    /\ inq' = [q \in Points |-> IF cp'[q].fd = NoFd THEN << >> ELSE inq[q]]
    /\ wire' = [q \in Points |-> IF cp'[q].fd = NoFd THEN << >> ELSE wire[q]]
    /\ sent' = [q \in Points |-> IF cp'[q].fd = NoFd THEN << >> ELSE sent[q]]
    /\ written' = [q \in Points |-> IF cp'[q].fd = NoFd THEN 0
                                     ELSE written[q]]
    /\ fed' = [q \in Points |-> IF cp'[q].fd = NoFd THEN NoFed ELSE fed[q]]
    /\ sends' = [q \in Points |-> IF cp'[q].fd = NoFd THEN 0 ELSE sends[q]]
    /\ live' = {q \in live : cp'[q].fd # NoFd}
    /\ UNCHANGED << timer, comsig, udp, num, have_writev, to_come, cb,
                    calls >>

\* the owner of handler p, having decided to tear its connection down by
\* another path, sets tcp_do_close in the comm point
caller_sets_tcp_do_close(p) ==
    /\ p \in Handlers
    /\ cp[p].fd # NoFd
    /\ ~cp[p].tcp_do_close
    /\ cp' = [cp EXCEPT ![p].tcp_do_close = TRUE]
    /\ UNCHANGED << timer, comsig,
                    udp, num, have_writev, acc, open_fds, pending, to_come, inq,
                    wire, cb, calls, sent, written, fed, sends, live >>

\* the owner of the outbound comm point, which was not used before, starts a
\* non-blocking connect on a new socket, puts the query m in the buffer, and
\* calls comm_point_start_listening with the socket and the query timeout
tcp_out_take_into_use(m) ==
    /\ Idle
    /\ OutId \in Points
    /\ cp[OutId].fd = NoFd
    /\ ~cp[OutId].timeout.alloc
    /\ cp' = [cp EXCEPT ![OutId] = comm_point_start_listening(
                    [cp[OutId] EXCEPT !.buffer = BufferWith(cp[OutId].buffer, m),
                                      !.tcp_is_reading = FALSE,
                                      !.tcp_byte_count = 0],
                    NewFd, TCP_QUERY_TIMEOUT)]
    /\ open_fds' = open_fds \cup {NewFd}
    /\ sent' = [sent EXCEPT ![OutId] = m]
    /\ wire' = [wire EXCEPT ![OutId] = << >>]
    /\ written' = [written EXCEPT ![OutId] = 0]
    /\ live' = live \cup {OutId}
    /\ UNCHANGED << timer, comsig,
                    udp, num, have_writev, acc, pending, to_come, inq, cb, calls,
                    fed, sends >>

\* ------------------------------------------------------------------- UDP
\* the k-th datagram that was sent to the UDP socket
Datagram(k) == << k >>
Datagrams(n) == [k \in 1..n |-> Datagram(k)]

\* the address a datagram came from, as recvfrom or recvmsg gives it
SourceOf(d) == d[1]

\* the control messages that come with a datagram on a socket that asks for
\* them: the datagrams come in turn on an IPv4 interface, on an IPv6
\* interface and with no information; info tells the interface and address
AncilOf(d) ==
    IF d[1] % 3 = 1 THEN [srctype |-> 4, info |-> d[1]]
    ELSE IF d[1] % 3 = 2 THEN [srctype |-> 6, info |-> d[1]]
    ELSE NoTag

\* recvfrom or recvmsg on the non-blocking UDP socket when the datagrams q
\* wait: the first of them, or -1 with EAGAIN or EINTR, or -1 with another
\* errno
UdpRecvResults(q) ==
    {Again, Fatal} \cup (IF q = << >> THEN {} ELSE {Ok(Len(Head(q)))})

\* sendto or sendmsg of n bytes: -1, all n bytes, or fewer
UdpSendResults(n) ==
    {Again, Fatal, Ok(n)} \cup (IF n > 0 THEN {Ok(n - 1)} ELSE {})

\* a comm_point_send_udp_msg that takes a short write for success
comm_point_send_udp_msg_lenient(c, packet, addr, r) ==
    [ calls |-> 1, fd |-> c.fd, to |-> addr, cmsg |-> NoCmsg,
      len |-> ldns_buffer_remaining(packet), sent |-> Returned(r),
      ret |-> IF r.k # "ok" THEN 0 ELSE 1 ]

\* comm_point_send_udp_msg(c, packet, addr, addrlen) when sendto gives r:
\* the one call it makes and what it returns
comm_point_send_udp_msg(c, packet, addr, r) ==
    [ calls |-> 1, fd |-> c.fd, to |-> addr, cmsg |-> NoCmsg,
      len |-> ldns_buffer_remaining(packet), sent |-> Returned(r),
      ret |-> IF r.k # "ok" THEN 0
              ELSE IF r.n # ldns_buffer_remaining(packet) THEN 0
              ELSE 1 ]

\* a control message that always asks for the default route
udp_cmsg_default(tag) ==
    [level |-> "IPPROTO_IPV6", type |-> "IPV6_PKTINFO", data |-> 0]

\* the control message comm_point_send_udp_msg_if builds from r->srctype and
\* r->pktinfo; all 0 asks for the default route
udp_cmsg(tag) ==
    IF tag.srctype = 4
    THEN [level |-> "IPPROTO_IP", type |-> "IP_PKTINFO", data |-> tag.info]
    ELSE IF tag.srctype = 6
    THEN [level |-> "IPPROTO_IPV6", type |-> "IPV6_PKTINFO",
          data |-> tag.info]
    ELSE [level |-> "IPPROTO_IPV6", type |-> "IPV6_PKTINFO", data |-> 0]

\* comm_point_send_udp_msg_if(c, packet, addr, addrlen, r) when sendmsg gives
\* res, in a build that has sendmsg and IPV6_PKTINFO
comm_point_send_udp_msg_if(c, packet, addr, tag, res) ==
    [ calls |-> 1, fd |-> c.fd, to |-> addr, cmsg |-> udp_cmsg(tag),
      len |-> ldns_buffer_remaining(packet), sent |-> Returned(res),
      ret |-> IF res.k # "ok" THEN 0
              ELSE IF res.n # ldns_buffer_remaining(packet) THEN 0
              ELSE 1 ]

\* the bytes the kernel took of the packet when the send call gave r
UdpTaken(packet, r) == IF r.k = "ok" THEN Take(Readable(packet), r.n) ELSE << >>

\* a loop condition that lets the counter reach NUM_UDP_PER_SELECT
udp_loop_continues_inclusive(i) == i <= NUM_UDP_PER_SELECT

\* the condition of the for loop of the UDP callbacks
udp_loop_continues(i) == i < NUM_UDP_PER_SELECT

\* a loop that ends when the reply could not be sent
udp_after_callback_strict(ancil, fd, c, i, snd) ==
    LET gone == IF ancil THEN c.fd = NoFd ELSE c.fd # fd
    IN  IF ~gone /\ ~(snd.calls > 0 /\ snd.ret = 0)
            /\ udp_loop_continues(i + 1)
        THEN "loop" ELSE "idle"

\* after the callback and the reply, if any, whose result is dropped: the
\* loop is left if the comm point has no descriptor (comm_point_udp_callback:
\* not the one the handler was called with), and goes on while the counter
\* allows
udp_after_callback(ancil, fd, c, i, snd) ==
    LET gone == IF ancil THEN c.fd = NoFd ELSE c.fd # fd
    IN  IF ~gone /\ udp_loop_continues(i + 1) THEN "loop" ELSE "idle"

\* comm_point_udp_callback or comm_point_udp_ancil_callback is called by the
\* event base with EV_READ, and comes to its loop
comm_point_udp_callback ==
    /\ Idle
    /\ UdpId \in Points
    /\ udp.pc = "idle"
    /\ cp[UdpId].ev.added /\ EV_READ \in cp[UdpId].ev.events
    /\ udp' = [udp EXCEPT !.pc = IF udp_loop_continues(0)
                                 THEN "loop" ELSE "idle",
                          !.fd = cp[UdpId].fd, !.i = 0, !.recvs = 0,
                          !.cbs = 0,
                          !.start = Len(inq[UdpId])]
    /\ UNCHANGED << timer, comsig,
                    num, have_writev, acc, cp, open_fds, pending, to_come,
                    inq, wire, cb, calls, sent, written, fed, sends, live >>

\* one turn of the loop up to the callback: the buffer is cleared, the
\* receive call on the descriptor the handler was called with gives r (EBADF
\* if that descriptor was closed); -1 returns from the handler, a datagram is
\* put in the buffer, the buffer flipped and the callback called with NOERROR
\* and the reply context
udp_recvfrom(r) ==
    /\ udp.pc = "loop"
    /\ r \in (IF udp.fd \in open_fds
              THEN UdpRecvResults(inq[UdpId]) ELSE {Fatal})
    /\ IF r.k # "ok"
       THEN /\ cp' = [cp EXCEPT ![UdpId].buffer = ldns_buffer_clear(@)]
            /\ udp' = [udp EXCEPT !.pc = "idle", !.recvs = @ + 1]
            /\ UNCHANGED << inq, cb >>
       ELSE /\ cp' = [cp EXCEPT ![UdpId].buffer =
                        ldns_buffer_flip(ldns_buffer_skip(
                            [ldns_buffer_clear(@) EXCEPT !.data =
                                StoreAt(@, 0, Head(inq[UdpId]))],
                            r.n))]
            /\ inq' = [inq EXCEPT ![UdpId] = Tail(@)]
            /\ cb' = [c |-> UdpId, status |-> NETEVENT_NOERROR,
                      reply |-> TRUE]
            /\ udp' = [udp EXCEPT !.pc = "callback", !.recvs = @ + 1,
                                  !.cbs = @ + 1,
                                  !.addr = SourceOf(Head(inq[UdpId])),
                                  !.tag = IF udp.ancil
                                          THEN AncilOf(Head(inq[UdpId]))
                                          ELSE NoTag]
    /\ UNCHANGED << timer, comsig,
                    num, have_writev, acc, open_fds, pending, to_come, wire,
                    calls, sent, written, fed, sends, live >>

\* what the callback of the UDP comm point may do to it before it returns
UdpDoes == {"keeps", "closes", "rebinds"}

\* the callback of the UDP comm point returns ret, having left the comm point
\* as it was, closed it, or given it a new socket with
\* comm_point_start_listening(c, newfd, 0) (nothing waits on that yet); keep:
\* the caller has copied the reply context to reply later.  If ret is true a
\* reply is sent from the buffer and the send call gives r (wire is what this
\* turn of the loop sent); then the loop ends or goes on
udp_callback_returns(ret, does, r, keep) ==
    /\ cb.c = UdpId
    /\ udp.pc = "callback"
    /\ does \in UdpDoes
    /\ keep => ~ret
    /\ IF ret /\ does # "closes"
       THEN r \in UdpSendResults(ldns_buffer_remaining(cp[UdpId].buffer))
       ELSE r = Fatal
    /\ LET c1  == CASE does = "closes" -> comm_point_close(cp[UdpId])
                    [] does = "rebinds" ->
                            comm_point_start_listening(cp[UdpId], NewFd, 0)
                    [] OTHER -> cp[UdpId]
           snd == IF ~ret THEN NoSend
                  ELSE IF udp.ancil
                  THEN comm_point_send_udp_msg_if(c1, c1.buffer, udp.addr,
                                                  udp.tag, r)
                  ELSE comm_point_send_udp_msg(c1, c1.buffer, udp.addr, r)
       IN  /\ cp' = [cp EXCEPT ![UdpId] = c1]
           /\ open_fds' =
                CASE does = "closes" -> open_fds \ close_closes(cp[UdpId])
                  [] does = "rebinds" ->
                        (open_fds \ start_listening_closes(cp[UdpId], NewFd))
                            \cup {NewFd}
                  [] OTHER -> open_fds
           /\ inq' = IF does = "rebinds" THEN [inq EXCEPT ![UdpId] = << >>]
                     ELSE inq
           /\ wire' = [wire EXCEPT ![UdpId] =
                        IF ret THEN UdpTaken(c1.buffer, r) ELSE << >>]
           /\ udp' = [udp EXCEPT
                        !.i = @ + 1,
                        !.snd = snd,
                        !.kept = IF keep
                                 THEN [held |-> TRUE, addr |-> udp.addr,
                                       tag |-> udp.tag]
                                 ELSE @,
                        !.pc = udp_after_callback(udp.ancil, udp.fd, c1,
                                                  udp.i, snd)]
    /\ cb' = NoCallback
    /\ UNCHANGED << timer, comsig,
                    num, have_writev, acc, pending, to_come, calls,
                    sent, written, fed, sends, live >>

\* --------------------------------------------- calls of the caller's own
\* the seconds a caller asks for: -1, 0 and timeouts
ListenSecs == {-1, 0} \cup (1..MaxSec)

\* the caller calls comm_point_start_listening(c, newfd, sec) on a comm point
\* it uses: the UDP comm point or a handler that has a connection; newfd is
\* -1 or a descriptor the caller has opened
call_comm_point_start_listening(p, newfd, sec) ==
    /\ Idle
    /\ udp.pc = "idle"
    /\ p \in Points
    /\ p \in Handlers => p \in live
    /\ newfd \in {NoFd, NewFd}
    /\ cp[p].fd # NoFd \/ newfd # NoFd
    /\ cp' = [cp EXCEPT ![p] = comm_point_start_listening(cp[p], newfd, sec)]
    /\ open_fds' = (open_fds \ start_listening_closes(cp[p], newfd))
                        \cup (IF newfd # NoFd THEN {newfd} ELSE {})
    /\ UNCHANGED << timer, comsig,
                    udp, num, have_writev, acc, pending, to_come, inq, wire,
                    cb, calls, sent, written, fed, sends, live >>

\* the caller calls comm_point_start_listening(c, newfd, sec) on the listener
call_start_listening_accept(newfd, sec) ==
    /\ Idle
    /\ udp.pc = "idle"
    /\ newfd \in {NoFd, NewFd}
    /\ acc' = comm_point_start_listening(acc, newfd, sec)
    /\ open_fds' = IF acc.tcp_free = NULL THEN open_fds
                   ELSE (open_fds \ start_listening_closes(acc, newfd))
                            \cup (IF newfd # NoFd THEN {newfd} ELSE {})
    /\ UNCHANGED << timer, comsig,
                    udp, num, have_writev, cp, pending, to_come, inq, wire,
                    cb, calls, sent, written, fed, sends, live >>

\* the caller calls comm_point_stop_listening on a comm point it uses
call_comm_point_stop_listening(p) ==
    /\ Idle
    /\ udp.pc = "idle"
    /\ p \in Points
    /\ p \in Handlers => p \in live
    /\ cp[p].fd # NoFd
    /\ cp' = [cp EXCEPT ![p] = comm_point_stop_listening(cp[p])]
    /\ UNCHANGED << timer, comsig,
                    udp, num, have_writev, acc, open_fds, pending, to_come,
                    inq, wire, cb, calls, sent, written, fed, sends, live >>

\* comm_point_send_reply on a copy of the reply context of the UDP comm
\* point, whose callback returned false before; the caller has put the reply
\* m in the buffer of the comm point, and the send call gives r
comm_point_send_reply_udp(m, r) ==
    /\ Idle
    /\ UdpId \in Points
    /\ udp.pc = "idle"
    /\ udp.kept.held
    /\ cp[UdpId].fd # NoFd
    /\ LET c1  == [cp[UdpId] EXCEPT !.buffer = BufferWith(@, m)]
           snd == IF udp.kept.tag.srctype # 0
                  THEN comm_point_send_udp_msg_if(c1, c1.buffer,
                            udp.kept.addr, udp.kept.tag, r)
                  ELSE comm_point_send_udp_msg(c1, c1.buffer,
                            udp.kept.addr, r)
       IN  /\ r \in UdpSendResults(ldns_buffer_remaining(c1.buffer))
           /\ cp' = [cp EXCEPT ![UdpId] = c1]
           /\ wire' = [wire EXCEPT ![UdpId] = UdpTaken(c1.buffer, r)]
           /\ udp' = [udp EXCEPT !.snd = snd, !.kept = NoReply]
    /\ UNCHANGED << timer, comsig,
                    num, have_writev, acc, open_fds, pending, to_come, inq,
                    cb, calls, sent, written, fed, sends, live >>

\* ------------------------------------------------------- the raw comm point
\* a raw handler that tells of a timeout as of a closed connection
raw_status_closed(events) ==
    IF EV_TIMEOUT \in events THEN NETEVENT_CLOSED ELSE NETEVENT_NOERROR

\* the status comm_point_raw_handle_callback gives the callback for events
raw_status(events) ==
    IF EV_TIMEOUT \in events THEN NETEVENT_TIMEOUT ELSE NETEVENT_NOERROR

\* the events the event base can call the handler of comm point c with:
\* readiness it is registered for, its timeout if it has one, or both
DeliverableEvents(c) ==
    {es \in SUBSET {EV_READ, EV_WRITE, EV_TIMEOUT} :
        /\ es # {}
        /\ c.ev.added
        /\ es \ {EV_TIMEOUT} \subseteq c.ev.events
        /\ EV_TIMEOUT \in es => c.ev.armed}

\* the event as the event base hands it to its handler with events: it
\* has removed an event whose timeout passed
event_delivered(ev, events) ==
    IF EV_TIMEOUT \in events THEN event_del(ev) ELSE ev

\* comm_point_raw_handle_callback(fd, events, c): the callback is called
\* with the status and no reply context
comm_point_raw_handle_callback(events) ==
    /\ Idle
    /\ RawId \in Points
    /\ events \in DeliverableEvents(cp[RawId])
    /\ cp' = [cp EXCEPT ![RawId].ev = event_delivered(@, events)]
    /\ cb' = [c |-> RawId, status |-> raw_status(events), reply |-> FALSE]
    /\ UNCHANGED << timer, comsig, udp, num, have_writev, acc, open_fds,
                    pending, to_come, inq, wire, calls, sent, written, fed,
                    sends, live >>

\* the callback of the raw comm point returns; what it returns is dropped
raw_callback_returns ==
    /\ cb.c = RawId
    /\ cb' = NoCallback
    /\ UNCHANGED << timer, comsig, udp, num, have_writev, acc, cp, open_fds,
                    pending, to_come, inq, wire, calls, sent, written, fed,
                    sends, live >>

\* ------------------------------------------------------- timer and signals
\* a timer whose timeout stays with the event base when it has passed
timer_fired_persistent(t) ==
    [t EXCEPT !.enabled = FALSE, !.incb = TRUE, !.calls = @ + 1]

\* the event base takes the timeout that has passed out of its timeouts
\* and calls comm_timer_callback, which calls the callback of the timer
timer_fired(t) ==
    [t EXCEPT !.regs = @ - 1, !.pending = FALSE, !.enabled = FALSE,
              !.incb = TRUE, !.calls = @ + 1]

\* the caller, or the callback of the timer, calls comm_timer_set(timer, tv)
call_comm_timer_set(tv) ==
    /\ timer.sets < MaxSets
    /\ timer' = [comm_timer_set(timer, tv) EXCEPT
                    !.sets = @ + 1,
                    !.cancels = IF timer.enabled THEN @ + 1 ELSE @]
    /\ UNCHANGED << comsig, udp, num, have_writev, acc, cp, open_fds, pending,
                    to_come, inq, wire, cb, calls, sent, written, fed, sends,
                    live >>

\* the caller, or the callback of the timer, calls comm_timer_disable(timer)
call_comm_timer_disable ==
    /\ timer' = [comm_timer_disable(timer) EXCEPT
                    !.cancels = IF timer.enabled THEN @ + 1 ELSE @]
    /\ UNCHANGED << comsig, udp, num, have_writev, acc, cp, open_fds, pending,
                    to_come, inq, wire, cb, calls, sent, written, fed, sends,
                    live >>

\* a timeout the event base holds for the timer has passed: the event base
\* takes it out and calls comm_timer_callback with EV_TIMEOUT, which marks
\* the timer as not enabled and calls the callback of the timer
comm_timer_callback ==
    /\ Idle
    /\ ~timer.incb
    /\ timer.regs > 0
    /\ timer' = timer_fired(timer)
    /\ UNCHANGED << comsig, udp, num, have_writev, acc, cp, open_fds, pending,
                    to_come, inq, wire, cb, calls, sent, written, fed, sends,
                    live >>

\* a return of the callback after which comm_timer_callback marks the timer
\* as not enabled
timer_callback_returns_disabled ==
    /\ timer.incb
    /\ timer' = [timer EXCEPT !.incb = FALSE, !.enabled = FALSE]
    /\ UNCHANGED << comsig, udp, num, have_writev, acc, cp, open_fds, pending,
                    to_come, inq, wire, cb, calls, sent, written, fed, sends,
                    live >>

\* the callback of the timer returns
timer_callback_returns ==
    /\ timer.incb
    /\ timer' = [timer EXCEPT !.incb = FALSE]
    /\ UNCHANGED << comsig, udp, num, have_writev, acc, cp, open_fds, pending,
                    to_come, inq, wire, cb, calls, sent, written, fed, sends,
                    live >>

\* the caller calls comm_signal_bind(comsig, sig), and it goes as outcome
call_comm_signal_bind(sig, outcome) ==
    /\ comsig.exists
    /\ Len(comsig.ev_signal) < MaxSignals
    /\ comsig' = comm_signal_bind(comsig, sig, outcome)
    /\ UNCHANGED << timer, udp, num, have_writev, acc, cp, open_fds, pending,
                    to_come, inq, wire, cb, calls, sent, written, fed, sends,
                    live >>

\* the caller calls comm_signal_delete(comsig)
call_comm_signal_delete ==
    /\ comsig.exists
    /\ comsig' = comm_signal_delete(comsig)
    /\ UNCHANGED << timer, udp, num, have_writev, acc, cp, open_fds, pending,
                    to_come, inq, wire, cb, calls, sent, written, fed, sends,
                    live >>

\* the caller calls comm_signal_create when it has no relay
call_comm_signal_create ==
    /\ ~comsig.exists
    /\ comsig' = [signal_created EXCEPT !.regs = comsig.regs]
    /\ UNCHANGED << timer, udp, num, have_writev, acc, cp, open_fds, pending,
                    to_come, inq, wire, cb, calls, sent, written, fed, sends,
                    live >>

\* the process gets signal sig, which the event base holds for the relay:
\* comm_signal_callback(sig, EV_SIGNAL, comsig) calls the callback with sig
comm_signal_callback(sig) ==
    /\ comsig.regs[sig] > 0
    /\ comsig' = [comsig EXCEPT !.got = sig]
    /\ UNCHANGED << timer, udp, num, have_writev, acc, cp, open_fds, pending,
                    to_come, inq, wire, cb, calls, sent, written, fed, sends,
                    live >>

\* ---------------------------------------------------------- specifications
Replies(set) == {m \in set : have_writev \/ Len(m) > 0}

\* comm_point_create_tcp(base, ListenFd, n, BufSize, ...) has returned, and
\* clients will make k connection attempts
InitPool(n, k) ==
    /\ num = n
    /\ acc = tcp_created(ListenFd, n)
    /\ cp = tcp_handlers_created(n)
    /\ open_fds = {ListenFd}
    /\ pending = 0
    /\ to_come = k
    /\ inq = [p \in 1..n |-> << >>]
    /\ wire = [p \in 1..n |-> << >>]
    /\ calls = [p \in 1..n |-> << >>]
    /\ sent = [p \in 1..n |-> << >>]
    /\ written = [p \in 1..n |-> 0]
    /\ fed = [p \in 1..n |-> NoFed]
    /\ sends = [p \in 1..n |-> 0]
    /\ cb = NoCallback
    /\ live = {}
    /\ udp = NoUdpCall
    /\ timer = timer_created
    /\ comsig = signal_created

\* comm_point_create_local(base, LocalFd, BufSize, ...) has returned; the
\* listener has no handlers and a client will make k connection attempts
InitLocal(k) ==
    /\ num = 0
    /\ acc = tcp_created(ListenFd, 0)
    /\ cp = (LocalId :> local_created(LocalFd))
    /\ open_fds = {ListenFd, LocalFd}
    /\ pending = 0
    /\ to_come = k
    /\ inq = (LocalId :> << >>)
    /\ wire = (LocalId :> << >>)
    /\ calls = (LocalId :> << >>)
    /\ sent = (LocalId :> << >>)
    /\ written = (LocalId :> 0)
    /\ fed = (LocalId :> NoFed)
    /\ sends = (LocalId :> 0)
    /\ cb = NoCallback
    /\ live = {}
    /\ udp = NoUdpCall
    /\ timer = timer_created
    /\ comsig = signal_created

\* the steps of the listener and its pooled handlers
NextTcp(split, scripts, replies, most) ==
    \/ ClientConnect
    \/ \E o \in {"ok", "again", "lost"} : comm_point_tcp_accept_callback(o)
    \/ \E p \in Handlers, s \in scripts : PeerSend(p, s, most)
    \/ \E p \in Handlers : comm_point_tcp_handle_callback(p, EV_READ, split)
    \/ \E p \in Handlers : comm_point_tcp_handle_callback(p, EV_WRITE, split)
    \/ \E p \in Handlers : comm_point_tcp_handle_callback(p, EV_TIMEOUT, split)
    \/ \E m \in Replies(replies) : callback_returns_true(m)
    \/ callback_returns_false
    \/ \E p \in Handlers, m \in Replies(replies) : comm_point_send_reply(p, m)
    \/ \E p \in Handlers : comm_point_drop_reply(p)
    \/ \E p \in Handlers : call_comm_point_close(p)

\* the listener with its pool: any pool size, whole messages, a build with
\* writev (the framing of both builds is exercised below)
Init == /\ have_writev = TRUE
        /\ \E n \in 0..MaxPool : InitPool(n, MaxPending)
Next == NextTcp(FALSE, PoolScripts, PoolReplies, PoolSends)
Spec == Init /\ [][Next]_vars

\* the framing: one handler or the local comm point, any split of the reads
\* and writes
InitFrame == /\ have_writev \in BOOLEAN
             /\ InitPool(1, 1) \/ InitLocal(1)
NextFrame ==
    \/ NextTcp(TRUE, FrameScripts, FrameReplies, MaxSends)
    \/ \E p \in Handlers : PeerEcho(p, MaxSends)
    \/ \E s \in FrameScripts :
            LocalId \in Points /\ PeerSend(LocalId, s, MaxSends)
    \/ comm_point_local_handle_callback(TRUE)
    \/ callback_closes_local
SpecFrame == InitFrame /\ [][NextFrame]_vars

\* the end of connections: one handler at most, any split of the reads and
\* writes, an owner that may set tcp_do_close
EndScripts ==
    {Frame(Msg(LDNS_HEADER_SIZE)), Frame(Hello), htons(BufSize + 1) \o <<7>>}
InitEnd == /\ have_writev \in BOOLEAN
           /\ \E n \in 0..1 : InitPool(n, MaxPending - 1)
NextEnd ==
    \/ NextTcp(TRUE, EndScripts, PoolReplies, PoolSends)
    \/ \E p \in Handlers : caller_sets_tcp_do_close(p)
SpecEnd == InitEnd /\ [][NextEnd]_vars

\* comm_point_create_tcp with n handlers and comm_point_create_udp have
\* returned, and clients will make k connection attempts
InitPoolUdp(n, k) ==
    /\ num = n
    /\ acc = tcp_created(ListenFd, n)
    /\ cp = tcp_handlers_created(n) @@ (UdpId :> udp_created(UdpFd))
    /\ open_fds = {ListenFd, UdpFd}
    /\ pending = 0
    /\ to_come = k
    /\ inq = [p \in 1..n |-> << >>]
    /\ wire = [p \in 1..n |-> << >>]
    /\ calls = [p \in 1..n |-> << >>]
    /\ sent = [p \in 1..n |-> << >>]
    /\ written = [p \in 1..n |-> 0]
    /\ fed = [p \in 1..n |-> NoFed]
    /\ sends = [p \in 1..n |-> 0]
    /\ cb = NoCallback
    /\ live = {}
    /\ udp = NoUdpCall
    /\ timer = timer_created
    /\ comsig = signal_created

\* dropping replies: the listener with its pool and a UDP comm point, whole
\* messages, a build with writev
InitDrop == /\ have_writev = TRUE
            /\ \E n \in 0..MaxPool : InitPoolUdp(n, MaxPending - 1)
NextDrop ==
    \/ NextTcp(FALSE, PoolScripts, PoolReplies, PoolSends)
    \/ \E p \in {NULL, UdpId} : comm_point_drop_reply(p)
SpecDrop == InitDrop /\ [][NextDrop]_vars

\* comm_point_create_tcp_out(base, BufSize, ...) has returned; the listener
\* has no handlers and a client will make k connection attempts
InitOutbound(k) ==
    /\ num = 0
    /\ acc = tcp_created(ListenFd, 0)
    /\ cp = (OutId :> tcp_out_created)
    /\ open_fds = {ListenFd}
    /\ pending = 0
    /\ to_come = k
    /\ inq = (OutId :> << >>)
    /\ wire = (OutId :> << >>)
    /\ calls = (OutId :> << >>)
    /\ sent = (OutId :> << >>)
    /\ written = (OutId :> 0)
    /\ fed = (OutId :> NoFed)
    /\ sends = (OutId :> 0)
    /\ cb = NoCallback
    /\ live = {}
    /\ udp = NoUdpCall
    /\ timer = timer_created
    /\ comsig = signal_created

\* the TCP comm points of both kinds: one pooled handler, or the outbound
\* comm point, any split of the reads and writes
InitOut == /\ have_writev \in BOOLEAN
           /\ InitPool(1, 1) \/ InitOutbound(1)
NextOut ==
    \/ NextTcp(TRUE, EndScripts, PoolReplies, PoolSends)
    \/ \E m \in PoolReplies : tcp_out_take_into_use(m)
    \/ \E s \in EndScripts :
            OutId \in Points /\ PeerSend(OutId, s, PoolSends)
    \/ \E e \in {EV_READ, EV_WRITE, EV_TIMEOUT} :
            comm_point_tcp_handle_callback(OutId, e, TRUE)
SpecOut == InitOut /\ [][NextOut]_vars

\* comm_point_create_udp or comm_point_create_udp_ancil has returned, and n
\* datagrams wait on the socket; the listener has no handlers
InitUdpWith(n, a) ==
    /\ num = 0
    /\ acc = tcp_created(ListenFd, 0)
    /\ cp = (UdpId :> udp_created(UdpFd))
    /\ open_fds = {ListenFd, UdpFd}
    /\ pending = 0
    /\ to_come = 0
    /\ inq = (UdpId :> Datagrams(n))
    /\ wire = (UdpId :> << >>)
    /\ calls = (UdpId :> << >>)
    /\ sent = (UdpId :> << >>)
    /\ written = (UdpId :> 0)
    /\ fed = (UdpId :> NoFed)
    /\ sends = (UdpId :> 0)
    /\ cb = NoCallback
    /\ live = {}
    /\ udp = [NoUdpCall EXCEPT !.ancil = a, !.start = n]
    /\ timer = timer_created
    /\ comsig = signal_created

\* the UDP comm point: few datagrams waiting, or about as many as one call of
\* the handler takes; the handler runs on, and its callback returns
\* a callback that asks for a reply at once (ret) has not closed the comm
\* point the reply is to leave from
UdpReplyAsked(ret, does) == does = "closes" => ~ret

QueuedAtStart == (0..2) \cup ((NUM_UDP_PER_SELECT - 1)..MaxQueued)
InitUdp == /\ have_writev = TRUE
           /\ \E n \in QueuedAtStart, a \in BOOLEAN : InitUdpWith(n, a)
NextUdp ==
    \/ comm_point_udp_callback
    \/ \E r \in {Again, Fatal, Ok(1)} : udp_recvfrom(r)
    \/ \E ret \in BOOLEAN, does \in {"keeps", "closes"} :
            /\ UdpReplyAsked(ret, does)
            /\ udp_callback_returns(ret, does,
                  IF ret THEN Ok(ldns_buffer_remaining(cp[UdpId].buffer))
                         ELSE Fatal,
                  FALSE)
SpecUdp ==
    /\ InitUdp
    /\ [][NextUdp]_vars
    /\ WF_vars(\E r \in {Again, Fatal, Ok(1)} : udp_recvfrom(r))
    /\ WF_vars(\E ret \in BOOLEAN, does \in {"keeps", "closes"} :
                  /\ UdpReplyAsked(ret, does)
                  /\ udp_callback_returns(ret, does,
                        IF ret THEN Ok(ldns_buffer_remaining(cp[UdpId].buffer))
                               ELSE Fatal,
                        FALSE))

\* the UDP comm point with its replies: few datagrams wait; the callback
\* leaves, closes or rebinds the comm point, replies at once or later, and
\* the send calls succeed, fail or come short
UdpReplies == {<< 9, 9 >>}
InitUdpIo == /\ have_writev = TRUE
             /\ \E n \in 0..MaxDatagrams, a \in BOOLEAN : InitUdpWith(n, a)
NextUdpIo ==
    \/ comm_point_udp_callback
    \/ \E r \in {Again, Fatal, Ok(1)} : udp_recvfrom(r)
    \/ \E ret, keep \in BOOLEAN, does \in UdpDoes,
          r \in {Again, Fatal, Ok(0), Ok(1)} :
            UdpReplyAsked(ret, does) /\ udp_callback_returns(ret, does, r, keep)
    \/ \E m \in UdpReplies, r \in {Again, Fatal, Ok(1), Ok(2)} :
            comm_point_send_reply_udp(m, r)
SpecUdpIo == InitUdpIo /\ [][NextUdpIo]_vars

\* the UDP comm point with callbacks of any kind: one that has closed the
\* comm point may return true all the same
InitUdpAny == InitUdpIo
NextUdpAny ==
    \/ comm_point_udp_callback
    \/ \E r \in {Again, Fatal, Ok(1)} : udp_recvfrom(r)
    \/ \E ret \in BOOLEAN, does \in UdpDoes,
          r \in {Fatal, Ok(0), Ok(1)} :
            udp_callback_returns(ret, does, r, FALSE)
SpecUdpAny == InitUdpAny /\ [][NextUdpAny]_vars

\* the listener with one handler, or the UDP comm point beside a listener
\* without handlers, and a caller that starts and stops listening on them
InitListen == /\ have_writev = TRUE
              /\ InitPool(1, 1) \/ InitUdpWith(0, FALSE)
NextListen ==
    \/ NextTcp(FALSE, PoolScripts, PoolReplies, PoolSends)
    \/ \E p \in Points, newfd \in {NoFd, NewFd}, sec \in ListenSecs :
            call_comm_point_start_listening(p, newfd, sec)
    \/ \E sec \in ListenSecs : call_start_listening_accept(NoFd, sec)
    \/ \E p \in Points : call_comm_point_stop_listening(p)
SpecListen == InitListen /\ [][NextListen]_vars

\* comm_point_create_raw, comm_timer_create and comm_signal_create have
\* returned; the listener has no handlers
InitRaw(writing) ==
    /\ num = 0
    /\ acc = tcp_created(ListenFd, 0)
    /\ cp = (RawId :> raw_created(RawFd, writing))
    /\ open_fds = {ListenFd, RawFd}
    /\ pending = 0
    /\ to_come = 0
    /\ inq = (RawId :> << >>)
    /\ wire = (RawId :> << >>)
    /\ calls = (RawId :> << >>)
    /\ sent = (RawId :> << >>)
    /\ written = (RawId :> 0)
    /\ fed = (RawId :> NoFed)
    /\ sends = (RawId :> 0)
    /\ cb = NoCallback
    /\ live = {}
    /\ udp = NoUdpCall
    /\ timer = timer_created
    /\ comsig = signal_created

\* a raw comm point and a timer on one event base: the caller sets and
\* disables the timer and gives the raw comm point a timeout; time passes
InitBase == /\ have_writev = TRUE
            /\ \E writing \in BOOLEAN : InitRaw(writing)
NextBase ==
    \/ \E es \in SUBSET {EV_READ, EV_WRITE, EV_TIMEOUT} :
            comm_point_raw_handle_callback(es)
    \/ raw_callback_returns
    \/ \E sec \in ListenSecs :
            call_comm_point_start_listening(RawId, NoFd, sec)
    \/ call_comm_point_stop_listening(RawId)
    \/ \E tv \in 1..MaxSec : call_comm_timer_set(tv)
    \/ call_comm_timer_disable
    \/ comm_timer_callback
    \/ timer_callback_returns
\* the event base looks at its timeouts each time it has called the handlers
\* of one round, so a timeout that has passed is not put off for ever by
\* other events; callbacks return
SpecBase ==
    /\ InitBase
    /\ [][NextBase]_vars
    /\ SF_vars(comm_timer_callback)
    /\ WF_vars(timer_callback_returns)
    /\ WF_vars(raw_callback_returns)

\* a signal relay on an event base: the caller binds signals to it, deletes
\* it and makes it again; signals come in
InitSignal == InitBase
NextSignal ==
    \/ \E sig \in SignalNumbers, o \in BindOutcomes :
            call_comm_signal_bind(sig, o)
    \/ call_comm_signal_delete
    \/ call_comm_signal_create
    \/ \E sig \in SignalNumbers : comm_signal_callback(sig)
SpecSignal == InitSignal /\ [][NextSignal]_vars

\* the listener with its pool until its owner deletes it: whole messages,
\* a build with writev; the owner calls nothing on comm points it has freed
InitDelete == /\ have_writev = TRUE
              /\ \E n \in 1..MaxPool : InitPool(n, MaxPool)
NextDelete ==
    \/ ClientConnect
    \/ \E o \in {"ok", "again", "lost"} : comm_point_tcp_accept_callback(o)
    \/ \E p \in Handlers, s \in PoolScripts : PeerSend(p, s, PoolSends)
    \/ \E p \in Handlers, e \in {EV_READ, EV_WRITE, EV_TIMEOUT} :
            comm_point_tcp_handle_callback(p, e, FALSE)
    \/ \E m \in Replies(PoolReplies) : callback_returns_true(m)
    \/ callback_returns_false
    \/ \E p \in Handlers, m \in Replies(PoolReplies) :
            acc.fd # NoFd /\ comm_point_send_reply(p, m)
    \/ \E p \in Handlers : acc.fd # NoFd /\ comm_point_drop_reply(p)
    \/ \E p \in Handlers : acc.fd # NoFd /\ call_comm_point_close(p)
    \/ call_comm_point_delete
SpecDelete == InitDelete /\ [][NextDelete]_vars

\* the listener with its pool, and callbacks that drop the reply when they
\* are told that the connection has ended
InitReclaim == /\ have_writev = TRUE
               /\ \E n \in 1..MaxPool : InitPool(n, MaxPool)
NextReclaim ==
    \/ NextTcp(FALSE, PoolScripts, PoolReplies, PoolSends)
    \/ \E p \in Handlers : comm_point_drop_reply_when_ended(p)
SpecReclaim == InitReclaim /\ [][NextReclaim]_vars

\* the end of connections when time passes: the event base hands out each
\* timeout that has passed once no callback runs, and callbacks return
InitTimeout == InitEnd
NextTimeout == NextEnd
SpecTimeout ==
    /\ InitTimeout
    /\ [][NextTimeout]_vars
    /\ \A p \in 1..MaxPool :
          WF_vars(comm_point_tcp_handle_callback(p, EV_TIMEOUT, TRUE))
    /\ WF_vars(callback_returns_false)

\* ------------------------------------------------------------ the TCP pool
\* C1: the free list of a listener with a pool of num handlers has between 0
\* and num handlers on it, and all num of them whenever every handler that was
\* accepted has been reclaimed.
C1_FreeListLength ==
    /\ Len(FreeList) \in 0..num
    /\ live = {} => Len(FreeList) = num

\* C1 case: a pool of two or more, every handler accepted once (its timeout
\* was set then) and all reclaimed again
C1_AllReclaimed ==
    /\ num >= 2
    /\ live = {}
    /\ \A p \in Handlers : cp[p].timeout.tv_sec = TCP_QUERY_TIMEOUT
    /\ Len(FreeList) = num

\* C2: in every state, right after creation too and for any pool size, the
\* listener is added to the event base exactly when its free list is not
\* empty.
C2_ListenerAddedIffFree == acc.ev.added <=> acc.tcp_free # NULL

\* C3: after every completed operation a pooled handler has fd = -1 exactly
\* when it is on the free list.
C3_FdIffFree ==
    Idle => \A p \in Handlers : cp[p].fd = NoFd <=> p \in FreeSet

\* C3, as the code has it: a handler on the free list has fd = -1, and a
\* handler off the free list comes to have fd = -1 only by a call of
\* comm_point_close on it, which does not put it on the free list.
C3_FdOfFreeHandlers ==
    /\ [](\A p \in Handlers : p \in FreeSet => cp[p].fd = NoFd)
    /\ [][\A p \in Handlers :
            (cp'[p].fd = NoFd /\ p \notin FreeSet')
                => \/ cp[p].fd = NoFd /\ p \notin FreeSet
                   \/ call_comm_point_close(p)]_vars

\* C3 case: comm_point_close was called on a handler with a connection
C3_ClosedNotFree ==
    \E p \in Handlers : cp[p].fd = NoFd /\ p \notin FreeSet /\ p \in live

\* C4: with a pool of two and three connections waiting in turn, no third
\* connection is accepted while two handlers are in use, and once one of them
\* is reclaimed the next readiness event of the listener accepts it.
C4_ThirdWaitsForReclaim ==
    (num = 2 /\ Idle /\ pending > 0) =>
        /\ Cardinality(live) <= 2
        /\ Cardinality(live) = 2
            => ~ENABLED comm_point_tcp_accept_callback("ok")
        /\ Cardinality(live) < 2
            => ENABLED comm_point_tcp_accept_callback("ok")

\* C4 case: two were accepted, one of them has been reclaimed, the third waits
C4_ThirdAfterReclaim ==
    /\ num = 2
    /\ pending = 1 /\ to_come = 0
    /\ Cardinality(live) = 1
    /\ \E p \in Handlers \ live : cp[p].timeout.tv_sec = TCP_QUERY_TIMEOUT
    /\ acc.ev.added

\* ------------------------------------------------------------- the framing
IsPrefix(a, b) == Len(a) <= Len(b) /\ a = Take(b, Len(a))

\* the length the two prefix bytes of s declare
Declared(s) == s[1] * 256 + s[2]

\* the callbacks of comm point p since its peer sent what fed[p] holds
NewCalls(p) == calls[p]

\* the one callback since then delivered the message m
Delivered(p, m) ==
    /\ Len(NewCalls(p)) = 1
    /\ NewCalls(p)[1].status = NETEVENT_NOERROR
    /\ NewCalls(p)[1].data = m

\* the one callback since then told that the connection is closed
ToldClosed(p) ==
    /\ Len(NewCalls(p)) = 1
    /\ NewCalls(p)[1].status = NETEVENT_CLOSED
    /\ ~NewCalls(p)[1].reply

\* handler p is back on the free list and its descriptor is closed
Reclaimed(p) ==
    /\ p \in FreeSet
    /\ cp[p].fd = NoFd
    /\ ~cp[p].ev.added
    /\ open_fds = {ListenFd} \cup ({cp[q].fd : q \in Points} \ {NoFd})

\* both prefix bytes of what the peer of p sent have been read
PrefixRead(p) ==
    /\ fed[p].on
    /\ Len(fed[p].bytes) >= PrefixSize
    /\ Len(inq[p]) <= Len(fed[p].bytes) - PrefixSize

\* C5: for a reply of any length from 0 to the capacity and any split of the
\* writes, the write path puts on the wire the two bytes of the length, high
\* byte first, then the payload, no byte twice and none left out, and
\* completes exactly once.
C5_WireIsFrame ==
    \A p \in Handlers :
        /\ written[p] <= 1
        /\ IsPrefix(wire[p], Frame(sent[p]))
        /\ written[p] = 1 => wire[p] = Frame(sent[p])

\* C6: the wire bytes the write path produced for a payload, read back by the
\* read path under any split, are delivered to the callback exactly once as
\* that payload, with tcp_byte_count back at 0.
C6_RoundTrip ==
    \A p \in Handlers :
        (fed[p].on /\ fed[p].isecho) =>
            \/ inq[p] # << >> /\ NewCalls(p) = << >>
            \/ /\ inq[p] = << >>
               /\ Delivered(p, fed[p].m)
               /\ cp[p].tcp_byte_count = 0

\* C6, as the code has it: the frame of a payload of at least
\* LDNS_HEADER_SIZE bytes, read back by a handler's read path under any split,
\* is delivered exactly once as that payload, with tcp_byte_count back at 0; the
\* frame of a shorter payload ends the connection with a CLOSED callback.
C6_RoundTripOfFrames ==
    \A p \in Handlers :
        (fed[p].on /\ fed[p].isecho /\ fed[p].bytes = Frame(fed[p].m)) =>
            IF Len(fed[p].m) >= LDNS_HEADER_SIZE
            THEN \/ inq[p] # << >> /\ NewCalls(p) = << >>
                 \/ /\ inq[p] = << >>
                    /\ Delivered(p, fed[p].m)
                    /\ cp[p].tcp_byte_count = 0
            ELSE \/ ~PrefixRead(p) /\ NewCalls(p) = << >>
                 \/ PrefixRead(p) /\ ToldClosed(p) /\ Reclaimed(p)

\* C6 case: a full-size reply came back and was delivered
C6_LongReplyReadBack ==
    \E p \in Handlers :
        /\ fed[p].on /\ fed[p].isecho
        /\ fed[p].m = Msg(BufSize)
        /\ fed[p].bytes = Frame(fed[p].m)
        /\ Delivered(p, fed[p].m)

\* C7: a TCP handler whose peer sends 0, 5, "hello", read in two parts, calls
\* the callback exactly once, with NOERROR and "hello" in the buffer.
C7_HelloDelivered ==
    \A p \in Handlers :
        (fed[p].on /\ fed[p].bytes = Frame(Hello)) =>
            \/ inq[p] # << >> /\ NewCalls(p) = << >>
            \/ inq[p] = << >> /\ Delivered(p, Hello)

\* C7, as the code has it: the local comm point whose peer sends 0, 5,
\* "hello" calls the callback exactly once, with NOERROR and "hello", however
\* the reads split; a TCP handler refuses the length 5 once it has read the
\* prefix, is reclaimed, and calls the callback once with CLOSED.
C7_HelloByEndpoint ==
    \A p \in Points :
        (fed[p].on /\ fed[p].bytes = Frame(Hello)) =>
            IF p = LocalId
            THEN \/ inq[p] # << >> /\ NewCalls(p) = << >>
                 \/ inq[p] = << >> /\ Delivered(p, Hello)
            ELSE \/ ~PrefixRead(p) /\ NewCalls(p) = << >>
                 \/ PrefixRead(p) /\ ToldClosed(p) /\ Reclaimed(p)

\* C7 case: the local comm point took 0, 5, "h" in one read event and "ello"
\* in the next
C7_HelloInTwoReads ==
    /\ LocalId \in Points
    /\ fed[LocalId].on
    /\ fed[LocalId].bytes = Frame(Hello)
    /\ fed[LocalId].reads = <<3, 4>>
    /\ Delivered(LocalId, Hello)

\* C8: a handler that read a prefix declaring more than the capacity is
\* reclaimed, its descriptor closed, and no callback with NOERROR or a reply
\* context is made for the message; a declared length equal to the capacity is
\* accepted.
C8_OversizeDropped ==
    \A p \in Handlers :
        /\ (PrefixRead(p) /\ Declared(fed[p].bytes) > BufSize) =>
                ToldClosed(p) /\ Reclaimed(p)
        /\ (fed[p].on /\ fed[p].bytes = Frame(Msg(BufSize))) =>
                \/ inq[p] # << >> /\ NewCalls(p) = << >>
                \/ inq[p] = << >> /\ Delivered(p, Msg(BufSize))

\* C8 case: a prefix declaring one more than the capacity was read
C8_OversizeRead ==
    \E p \in Handlers :
        /\ PrefixRead(p)
        /\ Declared(fed[p].bytes) = BufSize + 1
        /\ Reclaimed(p)

\* C9: a handler that read a declared length below LDNS_HEADER_SIZE ends the
\* connection and delivers nothing; the local comm point accepts every
\* declared length from 1 to the capacity and delivers the message.
C9_ShortLengths ==
    /\ \A p \in Handlers :
        (PrefixRead(p) /\ Declared(fed[p].bytes) < LDNS_HEADER_SIZE) =>
            ToldClosed(p) /\ Reclaimed(p)
    /\ \A L \in 1..BufSize :
        (/\ LocalId \in Points
         /\ fed[LocalId].on
         /\ fed[LocalId].bytes = Frame(Msg(L))) =>
            \/ inq[LocalId] # << >> /\ NewCalls(LocalId) = << >>
            \/ inq[LocalId] = << >> /\ Delivered(LocalId, Msg(L))

\* C9 case: the local comm point delivered a message of one byte
C9_OneByteDelivered ==
    /\ LocalId \in Points
    /\ fed[LocalId].on
    /\ fed[LocalId].bytes = Frame(Msg(1))
    /\ Delivered(LocalId, Msg(1))

\* the handler c waits for write readiness with the query timeout
WriteArmed(c) ==
    /\ c.ev.added
    /\ EV_WRITE \in c.ev.events /\ EV_READ \notin c.ev.events
    /\ EV_TIMEOUT \in c.ev.events
    /\ c.ev.armed /\ c.ev.tv_sec = TCP_QUERY_TIMEOUT

\* the callback of a whole message is running for a handler: the handler was
\* taken out of the event base before, and the call has NOERROR and the reply
\* context
InMessageCallback ==
    (cb.c \in Handlers /\ cb.status = NETEVENT_NOERROR) =>
        /\ ~cp[cb.c].ev.added
        /\ ~calls[cb.c][Len(calls[cb.c])].added
        /\ calls[cb.c][Len(calls[cb.c])].status = NETEVENT_NOERROR
        /\ calls[cb.c][Len(calls[cb.c])].reply

\* C10: a handler that has the whole message is out of the event base when
\* the callback runs, the callback gets NOERROR and the reply context, and
\* after it the handler waits for write readiness with the query timeout if it
\* returned true and is reclaimed if it returned false.
C10_AfterMessage ==
    /\ []InMessageCallback
    /\ [][(cb.c \in Handlers /\ cb.status = NETEVENT_NOERROR) =>
            /\ (\E m \in FrameReplies : callback_returns_true(m))
                    => WriteArmed(cp'[cb.c])
            /\ callback_returns_false
                    => cb.c \in FreeSet' /\ cp'[cb.c].fd = NoFd]_vars

\* C10, as the code has it: the same, but after the callback returned false
\* the handler is left as it is, out of the event base with its connection
\* open and off the free list, until comm_point_send_reply or
\* comm_point_drop_reply is called for it.
C10_AfterMessageKept ==
    /\ []InMessageCallback
    /\ [][(cb.c \in Handlers /\ cb.status = NETEVENT_NOERROR) =>
            /\ (\E m \in FrameReplies : callback_returns_true(m))
                    => WriteArmed(cp'[cb.c])
            /\ callback_returns_false
                    => /\ cp'[cb.c] = cp[cb.c]
                       /\ cp'[cb.c].fd # NoFd
                       /\ ~cp'[cb.c].ev.added
                       /\ cb.c \notin FreeSet']_vars

\* C10 case: the callback of a message returned false and the handler waits
\* for its reply
C10_ReplyAwaited ==
    \E p \in Handlers :
        /\ Idle
        /\ p \in live
        /\ cp[p].fd # NoFd
        /\ ~cp[p].ev.added
        /\ ~cp[p].tcp_is_reading
        /\ calls[p] # << >>
        /\ calls[p][Len(calls[p])].status = NETEVENT_NOERROR

\* ------------------------------------------------- the end of a write
\* the write path of handler p completes the frame in this step
WriteCompletes(p) == written'[p] = written[p] + 1

\* the handler c waits for read readiness, a new message to start
ReadyToRead(c) ==
    /\ c.tcp_is_reading
    /\ c.tcp_byte_count = 0
    /\ c.ev.added
    /\ EV_READ \in c.ev.events /\ EV_WRITE \notin c.ev.events

\* C11: a pooled handler that completes the write of a frame is switched to
\* reading, its byte counter is 0, and it is added for read readiness with no
\* timeout armed.
C11_ReadNoTimeout ==
    [][\A p \in Handlers :
        WriteCompletes(p) => ReadyToRead(cp'[p]) /\ ~cp'[p].ev.armed]_vars

\* C11, as the code has it: the same, but the handler is added with the
\* timeout it has, which is the query timeout of TCP_QUERY_TIMEOUT seconds set
\* when it was added for writing; the buffer is cleared.
C11_ReadWithTimeout ==
    [][\A p \in Handlers :
        WriteCompletes(p) =>
            /\ ReadyToRead(cp'[p])
            /\ EV_TIMEOUT \in cp'[p].ev.events
            /\ cp'[p].ev.armed
            /\ cp'[p].ev.tv_sec = TCP_QUERY_TIMEOUT
            /\ cp'[p].buffer.pos = 0
            /\ cp'[p].buffer.lim = BufSize]_vars

\* C11 case: a handler has written a whole frame of a full header and waits
\* for the next message, its timeout armed
C11_WrittenThenReading ==
    \E p \in Handlers :
        /\ written[p] = 1
        /\ wire[p] = Frame(Msg(LDNS_HEADER_SIZE))
        /\ ReadyToRead(cp[p])
        /\ cp[p].ev.armed

\* --------------------------------------------------- the end of connections
\* the event base calls the handler of p with the event e in this step
HandlesEvent(p, e) == comm_point_tcp_handle_callback(p, e, TRUE)

\* the callback of p is entered in this step, with status and no reply context
Told(p, status) ==
    /\ cb' = [c |-> p, status |-> status, reply |-> FALSE]
    /\ Len(calls'[p]) = Len(calls[p]) + 1
    /\ calls'[p][Len(calls'[p])].status = status

\* a read or write event of p ends its connection in this step
EndsByIo(p) ==
    /\ p \in live /\ p \notin live'
    /\ HandlesEvent(p, EV_READ) \/ HandlesEvent(p, EV_WRITE)

\* C12: whenever the timeout of a handler fires, in the prefix or the body
\* phase of a read or of a write, the handler is reclaimed and its callback is
\* called with TIMEOUT and not with CLOSED; whenever a read or write event ends
\* the connection, for a peer that is gone or an I/O error, the callback is
\* called with CLOSED and not with TIMEOUT (tcp_do_close not being set).
C12_TimeoutNotClosed ==
    [][\A p \in Handlers :
        /\ (HandlesEvent(p, EV_TIMEOUT) /\ ~cp[p].tcp_do_close) =>
                /\ Reclaimed(p)'
                /\ Told(p, NETEVENT_TIMEOUT)
        /\ (EndsByIo(p) /\ ~cp[p].tcp_do_close) =>
                /\ Reclaimed(p)'
                /\ Told(p, NETEVENT_CLOSED)]_vars

\* C12 case: the timeout fired when one byte of the prefix had been read
C12_TimeoutInPrefix ==
    /\ cb.c \in Handlers
    /\ cb.status = NETEVENT_TIMEOUT
    /\ cp[cb.c].tcp_is_reading
    /\ cp[cb.c].tcp_byte_count = 1
    /\ Reclaimed(cb.c)

\* an event of p ends its connection in this step
EndsByEvent(p) ==
    /\ p \in live /\ p \notin live'
    /\ \E e \in {EV_TIMEOUT, EV_READ, EV_WRITE} : HandlesEvent(p, e)

\* the calls with CLOSED or TIMEOUT among the recorded calls of p
Endings(p) ==
    {i \in 1..Len(calls[p]) : calls[p][i].status # NETEVENT_NOERROR}

\* C13: an event that ends the connection of a handler (recv returning 0, a
\* read or write error, a refused length, the timeout) reclaims the handler
\* and calls the callback with CLOSED or TIMEOUT, once (tcp_do_close not being
\* set); an event that does not end it makes no such call; and once the
\* handler is reclaimed no event is handled and no callback is entered for it
\* until it is accepted again.
C13_EndedOnce ==
    /\ [](\A p \in Handlers :
            Cardinality(Endings(p)) =
                IF cb.c = p /\ cb.status # NETEVENT_NOERROR THEN 1 ELSE 0)
    /\ [][\A p \in Handlers :
            /\ (EndsByEvent(p) /\ ~cp[p].tcp_do_close) =>
                    /\ Reclaimed(p)'
                    /\ Told(p, NETEVENT_CLOSED) \/ Told(p, NETEVENT_TIMEOUT)
                    /\ Endings(p)' = {Len(calls'[p])}
            /\ \/ p \in live /\ p \notin live'
               \/ /\ p \in live'
                  /\ cp'[p].fd = cp[p].fd
                  /\ cb'.c = p => cb'.status = NETEVENT_NOERROR
               \/ \A e \in {EV_READ, EV_WRITE, EV_TIMEOUT} :
                        ~HandlesEvent(p, e)
            /\ (p \notin live /\ p \notin live') =>
                    /\ \A e \in {EV_READ, EV_WRITE, EV_TIMEOUT} :
                            ~HandlesEvent(p, e)
                    /\ cb'.c = p => cb' = cb
                    /\ Len(calls'[p]) <= Len(calls[p])]_vars

\* C13 case: a failed write ended the connection and the one CLOSED call is
\* being made
C13_ClosedAfterWrite ==
    /\ cb.c \in Handlers
    /\ cb.status = NETEVENT_CLOSED
    /\ ~cp[cb.c].tcp_is_reading
    /\ Reclaimed(cb.c)
    /\ Cardinality(Endings(cb.c)) = 1

\* C14: when tcp_do_close of a handler is set and a read failure, a write
\* failure or the timeout ends its connection, the handler is reclaimed and no
\* callback is called.
C14_SuppressedEnd ==
    [][\A p \in Handlers :
        (EndsByEvent(p) /\ cp[p].tcp_do_close) =>
            /\ Reclaimed(p)'
            /\ cb' = cb /\ Idle'
            /\ calls' = calls]_vars

\* C14 case: a handler with tcp_do_close set was reclaimed when a read failed
\* that had taken one byte of the prefix before, and no callback runs
C14_ReclaimedUntold ==
    \E p \in Handlers :
        /\ cp[p].tcp_do_close
        /\ cp[p].tcp_is_reading /\ cp[p].tcp_byte_count = 1
        /\ Reclaimed(p)
        /\ Idle
        /\ calls[p] = << >>

\* ---------------------------------------------------------- dropped replies
\* C15: comm_point_drop_reply for a pooled handler in use closes its
\* descriptor, pushes the handler on the free list of its listener, adds the
\* listener to the event base again if the free list was empty, calls no
\* callback and sends nothing; for the UDP comm point and for no reply context
\* it changes nothing.
C15_DropReply ==
    [][/\ \A p \in Handlers :
            (comm_point_drop_reply(p) /\ cp[p].fd # NoFd) =>
                /\ cp'[p].fd = NoFd
                /\ open_fds' = open_fds \ {cp[p].fd}
                /\ ~cp'[p].ev.added
                /\ FreeList' = << p >> \o FreeList
                /\ acc.tcp_free = NULL => acc'.ev.added
                /\ acc.tcp_free # NULL => acc' = [acc EXCEPT !.tcp_free = p]
                /\ cb' = cb /\ Idle'
                /\ calls'[p] = << >>
                /\ wire'[p] = << >>
       /\ \A p \in {NULL, UdpId} :
            comm_point_drop_reply(p) => UNCHANGED vars]_vars

\* C15 case: with both handlers of the pool in use, the reply of the one that
\* waited for it was dropped: it is the free list, and the listener is added
C15_DroppedAwaited ==
    \E p \in Handlers :
        /\ num = 2
        /\ Idle
        /\ FreeList = << p >>
        /\ cp[p].fd = NoFd
        /\ ~cp[p].tcp_is_reading
        /\ EV_READ \in cp[p].ev.events
        /\ acc.ev.added
        /\ cp[UdpId].fd = UdpFd /\ cp[UdpId].ev.added

\* ------------------------------------------------------------------ accept
\* C16: after every accept that succeeded, the handler that was the head of
\* the free list has the new descriptor, tcp_byte_count 0, reading set, a
\* cleared buffer, and is added for read readiness with a timeout of
\* TCP_QUERY_TIMEOUT seconds; the listener is taken out of the event base in
\* that step if the free list became empty, and is left as it was if not.
C16_Accepted ==
    [][comm_point_tcp_accept_callback("ok") =>
        LET h == acc.tcp_free
        IN  /\ h # NULL
            /\ FreeList = << h >> \o FreeList'
            /\ NewFd \notin open_fds
            /\ open_fds' = open_fds \cup {NewFd}
            /\ cp'[h].fd = NewFd
            /\ ReadyToRead(cp'[h])
            /\ cp'[h].buffer.pos = 0
            /\ cp'[h].buffer.lim = BufSize
            /\ EV_TIMEOUT \in cp'[h].ev.events
            /\ cp'[h].ev.armed
            /\ cp'[h].ev.tv_sec = TCP_QUERY_TIMEOUT
            /\ acc'.tcp_free = NULL => ~acc'.ev.added
            /\ acc'.tcp_free # NULL
                    => acc' = [acc EXCEPT !.tcp_free = cp[h].tcp_free]]_vars

\* C16 case: all connection attempts were made and taken, the last accept
\* took the last free handler of a pool of two, and the listener is out of
\* the event base
C16_LastHandlerTaken ==
    /\ num = 2
    /\ to_come = 0 /\ pending = 0
    /\ live = Handlers
    /\ acc.tcp_free = NULL
    /\ ~acc.ev.added
    /\ \E p \in Handlers :
        /\ ReadyToRead(cp[p])
        /\ cp[p].fd \in open_fds
        /\ sends[p] = 0

\* C17: a readiness event of the listener that finds the free list empty, or
\* whose accept() fails, with a transient error or another, leaves the free
\* list, every handler, the descriptors and the listener as they were, and
\* calls no callback.
C17_FailedAccept ==
    [][(\E o \in {"again", "lost"} : comm_point_tcp_accept_callback(o)) =>
            /\ UNCHANGED << acc, cp, open_fds, live, cb, calls >>
            /\ FreeList' = FreeList]_vars

\* C17 case: every connection attempt was lost before its accept, or found no
\* handler free, and the pool is as it was created
C17_NothingAccepted ==
    /\ num >= 1
    /\ to_come = 0 /\ pending = 0
    /\ acc = tcp_created(ListenFd, num)
    /\ cp = tcp_handlers_created(num)
    /\ open_fds = {ListenFd}
    /\ Idle

\* -------------------------------------------------------- transient errors
\* the outcome s of a read leaves the comm point c and what is to receive, q,
\* as they were, and the handler returns 1: no reclaim and no callback follow
ReadLeft(c, q, s) == s.next = "ret1" /\ s.c = c /\ s.q = q

\* the same for the outcome s of a write, which put nothing on the wire
WriteLeft(c, s) == s.next = "ret1" /\ s.c = c /\ s.out = << >>

\* C18: a recv, send or writev of a TCP comm point that fails with EINTR or
\* EAGAIN, and a check of a pending connect that finds it in progress, leave
\* the descriptor, the direction, tcp_byte_count, the buffer, the event and
\* the free list link of the comm point as they were, and make the handler
\* return 1, which calls no callback; this holds for the first system call of
\* a handler and for the second one after the first went well.
C18_TransientLeaves ==
    \A p \in Points :
        (cp[p].type = "comm_tcp" /\ cp[p].ev.added) =>
            LET c == cp[p]
                q == inq[p]
            IN  /\ (c.tcp_is_reading /\ c.tcp_byte_count < PrefixSize) =>
                    /\ ReadLeft(c, q, tcp_read_prefix(c, q, FALSE, Again))
                    /\ \A r \in RecvResults(q, PrefixSize - c.tcp_byte_count,
                                            TRUE) :
                        LET s1 == tcp_read_prefix(c, q, FALSE, r)
                        IN  s1.next = "body" =>
                                ReadLeft(s1.c, s1.q,
                                         tcp_read_body(s1.c, s1.q, Again))
                /\ (c.tcp_is_reading /\ c.tcp_byte_count >= PrefixSize) =>
                    ReadLeft(c, q, tcp_read_body(c, q, Again))
                /\ (~c.tcp_is_reading /\ c.tcp_byte_count < PrefixSize) =>
                    /\ WriteLeft(c, tcp_write_prefix(c, have_writev, Again))
                    /\ \A r \in SendResults(
                                Len(tcp_write_offer(c, have_writev)), TRUE) :
                        LET s1 == tcp_write_prefix(c, have_writev, r)
                        IN  s1.next = "body" =>
                                WriteLeft(s1.c, tcp_write_body(s1.c, Again))
                /\ (~c.tcp_is_reading /\ c.tcp_byte_count >= PrefixSize) =>
                    WriteLeft(c, tcp_write_body(c, Again))
                /\ (~c.tcp_is_reading /\ c.tcp_byte_count = 0
                        /\ c.tcp_check_nb_connect) =>
                    /\ tcp_connect_check(c, "inprogress") = "ret1"
                    /\ [next |-> "ret1", c |-> c, out |-> << >>]
                            \in tcp_handle_write(c, have_writev, TRUE)

\* C18 case: the outbound comm point waits to write its query, the connect
\* not yet known to be made
C18_ConnectPending ==
    /\ OutId \in Points
    /\ cp[OutId].fd # NoFd
    /\ cp[OutId].ev.added /\ EV_WRITE \in cp[OutId].ev.events
    /\ ~cp[OutId].tcp_is_reading
    /\ cp[OutId].tcp_byte_count = 0
    /\ cp[OutId].tcp_check_nb_connect

\* ----------------------------------------------------------- tcp_byte_count
\* handler p is bound to a new connection in this step
Accepted(p) == p \notin live /\ p \in live'

\* the read path of p has the whole message in this step: its callback is
\* entered with NOERROR
ReadCompletes(p) ==
    /\ cb.c = NULL
    /\ cb'.c = p /\ cb'.status = NETEVENT_NOERROR

\* C19: tcp_byte_count of a handler never decreases within the read or the
\* write of one message, and it is set to 0 exactly where a new read or write
\* starts: when the handler is accepted, when a read completes and when a
\* write completes.
C19_ByteCount ==
    [][\A p \in Handlers :
        /\ cp'[p].tcp_byte_count < cp[p].tcp_byte_count =>
                /\ cp'[p].tcp_byte_count = 0
                /\ Accepted(p) \/ ReadCompletes(p) \/ WriteCompletes(p)
        /\ (Accepted(p) \/ ReadCompletes(p) \/ WriteCompletes(p)) =>
                cp'[p].tcp_byte_count = 0]_vars

\* C19 case: a handler read a message, wrote the reply and has read the next
\* message whole; tcp_byte_count is 0 again
C19_SecondMessageRead ==
    \E p \in Handlers :
        /\ sends[p] = 2
        /\ cb.c = p /\ cb.status = NETEVENT_NOERROR
        /\ cp[p].tcp_byte_count = 0
        /\ ~cp[p].tcp_is_reading

\* ------------------------------------------------------------------- UDP
\* C20: one call of the UDP callback, plain or with ancillary data, makes at
\* most NUM_UDP_PER_SELECT receive calls and calls the callback at most that
\* often, once for every datagram it received and with that datagram, in the
\* order they waited; it returns at the first receive that gives -1, for
\* EAGAIN or EINTR or another error; so it always returns.
C20_UdpBatch ==
    /\ [](/\ udp.recvs <= NUM_UDP_PER_SELECT
          /\ udp.cbs <= udp.recvs
          /\ udp.cbs = udp.start - Len(inq[UdpId])
          /\ udp.pc = "loop" => udp.i < NUM_UDP_PER_SELECT)
    /\ [][/\ udp_recvfrom(Ok(1)) =>
                /\ Readable(cp'[UdpId].buffer) = Head(inq[UdpId])
                /\ inq'[UdpId] = Tail(inq[UdpId])
                /\ cb'.c = UdpId /\ cb'.status = NETEVENT_NOERROR
          /\ (udp_recvfrom(Again) \/ udp_recvfrom(Fatal)) =>
                /\ udp'.pc = "idle"
                /\ cb' = cb /\ inq' = inq]_vars
    /\ (udp.pc # "idle") ~> (udp.pc = "idle")

\* C20 case: one call took NUM_UDP_PER_SELECT datagrams of the
\* NUM_UDP_PER_SELECT + 2 that waited, and returned with the comm point open
C20_BatchFull ==
    /\ UdpId \in Points
    /\ udp.pc = "idle"
    /\ udp.start = NUM_UDP_PER_SELECT + 2
    /\ udp.recvs = NUM_UDP_PER_SELECT
    /\ udp.cbs = NUM_UDP_PER_SELECT
    /\ Len(inq[UdpId]) = 2
    /\ cp[UdpId].fd = UdpFd

\* ------------------------------------------------------------ UDP replies
\* the callback of the UDP comm point returns in this step
UdpCallbackReturns == udp.pc = "callback" /\ udp'.pc # "callback"

\* a receive call is made in this step
UdpReceives == udp.pc = "loop" /\ udp'.recvs = udp.recvs + 1

\* C21: for the plain and for the ancillary UDP comm point, when the callback
\* has closed the comm point or given it another descriptor, the loop of that
\* call of the handler ends, and no receive call is made on the descriptor
\* the handler was called with.
C21_LoopEndsWhenFdChanged ==
    /\ [][(UdpCallbackReturns /\ cp'[UdpId].fd # udp.fd)
            => udp'.pc = "idle"]_vars
    /\ [][UdpReceives => cp[UdpId].fd = udp.fd]_vars

\* the callback of the UDP comm point returns ret in this step
UdpCallbackGives(ret) ==
    \E does \in UdpDoes, r \in UdpSendResults(1), keep \in BOOLEAN :
        udp_callback_returns(ret, does, r, keep)

UdpSends ==
    \/ UdpCallbackGives(TRUE)
    \/ \E m \in UdpReplies :
            \E r \in UdpSendResults(Len(m)) : comm_point_send_reply_udp(m, r)

\* C23: comm_point_send_udp_msg and comm_point_send_udp_msg_if (in a build
\* with sendmsg and IPV6_PKTINFO) make one send call, for the bytes of the
\* buffer from its position to its limit, and return 1 exactly when that call
\* returned the number of those bytes; when it returned -1 or a smaller
\* number they return 0, and what the kernel took is all that was sent.
C23_OneSendCall ==
    /\ [][UdpSends =>
            /\ udp'.snd.calls = 1
            /\ udp'.snd.len = Len(Readable(cp'[UdpId].buffer))
            /\ udp'.snd.ret = 1 <=> udp'.snd.sent = udp'.snd.len
            /\ udp'.snd.ret = 0 <=> udp'.snd.sent < udp'.snd.len
            /\ wire'[UdpId] =
                Take(Readable(cp'[UdpId].buffer),
                     IF udp'.snd.sent = -1 THEN 0 ELSE udp'.snd.sent)]_vars
    /\ [](\A r \in UdpSendResults(ldns_buffer_remaining(cp[UdpId].buffer)) :
            LET c == cp[UdpId]
                plain == comm_point_send_udp_msg(c, c.buffer, udp.addr, r)
                byif  == comm_point_send_udp_msg_if(c, c.buffer, udp.addr,
                                                    udp.tag, r)
            IN  /\ plain.calls = 1 /\ byif.calls = 1
                /\ plain.ret = byif.ret
                /\ plain.ret = 1 <=> r = Ok(ldns_buffer_remaining(c.buffer)))

\* C23 case: the send call of a reply of two bytes took one byte
C23_ShortWrite ==
    /\ udp.snd.calls = 1
    /\ udp.snd.len = 2
    /\ udp.snd.sent = 1
    /\ udp.snd.ret = 0
    /\ wire[UdpId] = << 9 >>

\* the interface a control message of a send call asks for: that of an
\* IP_PKTINFO or IPV6_PKTINFO message with data, none without a control
\* message or with IPV6_PKTINFO data all 0
TagOfCmsg(cmsg) ==
    IF cmsg.type = "IP_PKTINFO" THEN [srctype |-> 4, info |-> cmsg.data]
    ELSE IF cmsg.type = "IPV6_PKTINFO" /\ cmsg.data # 0
    THEN [srctype |-> 6, info |-> cmsg.data]
    ELSE NoTag

\* C24: for a UDP comm point with ancillary data, the interface information
\* that came with a datagram (none, IPv4 or IPv6, with its data) is kept in
\* the reply context when the datagram is received, and is what the send call
\* of the reply to that datagram asks for, for the reply sent at once in the
\* loop and for the reply comm_point_send_reply sends later from a copy of
\* the reply context.
C24_TagEchoed ==
    [][udp.ancil =>
        /\ (udp.pc = "loop" /\ udp'.pc = "callback") =>
                /\ udp'.tag = AncilOf(Head(inq[UdpId]))
                /\ udp'.addr = SourceOf(Head(inq[UdpId]))
        /\ UdpCallbackGives(TRUE) =>
                /\ TagOfCmsg(udp'.snd.cmsg) = udp.tag
                /\ TagOfCmsg(udp'.snd.cmsg) = AncilOf(Datagram(udp'.snd.to))
        /\ (UdpCallbackReturns /\ udp'.kept # udp.kept) =>
                /\ udp'.kept.tag = udp.tag
                /\ udp'.kept.addr = udp.addr
        /\ (\E m \in UdpReplies :
                \E r \in UdpSendResults(Len(m)) :
                    comm_point_send_reply_udp(m, r)) =>
                /\ TagOfCmsg(udp'.snd.cmsg) = udp.kept.tag
                /\ udp'.snd.to = udp.kept.addr
                /\ TagOfCmsg(udp'.snd.cmsg) = AncilOf(Datagram(udp'.snd.to))
      ]_vars

\* C24 case: the reply to the first datagram, which came on an IPv4
\* interface, was sent later by comm_point_send_reply, when the second
\* datagram, from an IPv6 interface, had been received
C24_LaterReplyTagged ==
    /\ udp.ancil
    /\ udp.pc = "idle"
    /\ udp.tag.srctype = 6
    /\ udp.snd.calls = 1
    /\ udp.snd.len = 2
    /\ udp.snd.to = 1
    /\ udp.snd.cmsg.type = "IP_PKTINFO"

\* ------------------------------------------------------- start listening
\* c2 is c registered with a timeout of sec seconds (sec > 0), with no
\* timeout (sec = 0), with the timeout stored in c (sec = -1)
RegisteredFor(c, c2, sec) ==
    /\ c2.ev.added
    /\ sec > 0 => c2.ev.armed /\ c2.ev.tv_sec = sec
    /\ sec = 0 => ~c2.ev.armed
    /\ sec = -1 => IF c.timeout.alloc
                   THEN c2.ev.armed /\ c2.ev.tv_sec = c.timeout.tv_sec
                   ELSE ~c2.ev.armed

\* c2 has the descriptor newfd, and the one c had is closed in the next
\* state, or newfd is -1 and c2 has the descriptor of c
BoundTo(c, c2, newfd) ==
    /\ newfd # NoFd => /\ c2.fd = newfd
                       /\ c.fd # NoFd => c.fd \notin open_fds'
    /\ newfd = NoFd => c2.fd = c.fd

C30_LocalAlwaysReads ==
    LocalId \in Points =>
        /\ cp[LocalId].tcp_is_reading
        /\ EV_WRITE \notin cp[LocalId].ev.events
        /\ cp[LocalId].do_not_close
        /\ LocalFd \in open_fds
        /\ cp[LocalId].fd \in {LocalFd, NoFd}

\* C30 case: the callback of the local comm point got a complete message and
\* returned true, and the comm point listens again
C30_LocalAfterMessage ==
    /\ LocalId \in Points
    /\ Idle
    /\ calls[LocalId] # << >>
    /\ cp[LocalId].ev.added
    /\ cp[LocalId].ev.armed
    /\ cp[LocalId].tcp_byte_count = 0


\* ------------------------------------------------------------------ timers
\* C26: whatever the sequence of comm_timer_set, comm_timer_disable and
\* firings, the event base holds at most one timeout for the timer, and
\* comm_timer_is_set gives 1 exactly when the event base holds one: it gives
\* 1 after comm_timer_set, 0 after comm_timer_disable, and 0 after the timer
\* fired, until it is set again.
C26_TimerRegisteredOnce ==
    /\ [](/\ timer.regs <= 1
          /\ comm_timer_is_set(timer) = 1 <=> timer.regs = 1)
    /\ [][(\E tv \in 1..MaxSec : call_comm_timer_set(tv))
            => comm_timer_is_set(timer)' = 1]_vars
    /\ [][call_comm_timer_disable => comm_timer_is_set(timer)' = 0]_vars
    /\ [][comm_timer_callback => comm_timer_is_set(timer)' = 0]_vars

\* the timer was set, and set again while the event base held its timeout
C26_SetAgainWhileArmed ==
    /\ timer.sets > 1
    /\ timer.cancels = 1
    /\ timer.calls = 0
    /\ comm_timer_is_set(timer) = 1
    /\ timer.regs = 1


\* C27: a timer fires once for each time it is set: each comm_timer_set is
\* taken back by comm_timer_disable or by another comm_timer_set, or else
\* leads to one call of the callback of the timer, and to no more calls
\* until comm_timer_set is called again; a timer that is not set does not
\* fire.
C27_TimerOneShot ==
    /\ [](timer.sets = timer.calls + timer.cancels + comm_timer_is_set(timer))
    /\ [](comm_timer_is_set(timer) = 0 => timer.regs = 0)
    /\ [][comm_timer_callback
            => /\ comm_timer_is_set(timer) = 1
               /\ timer'.calls = timer.calls + 1
               /\ timer'.regs = 0]_vars
    /\ \A n \in 0..MaxSets :
          (comm_timer_is_set(timer) = 1 /\ timer.sets = n /\ ~timer.incb)
            ~> (timer.sets > n \/ timer.cancels + timer.calls = n)

\* the callback of the timer was called, set the timer again and returned,
\* and was called a second time
C27_FiredTwice ==
    /\ timer.sets = 2
    /\ timer.calls = 2
    /\ timer.cancels = 0
    /\ timer.incb


\* ----------------------------------------------------------- signal relay
\* C28: the signals the event base holds for a signal relay are those of
\* the entries of its list: a comm_signal_bind that succeeds adds one
\* registration and one entry and returns 1, one that fails (no memory,
\* event_base_set or signal_add failed) adds neither and returns 0, and
\* comm_signal_delete takes every bound signal out of the event base.
C28_SignalsAreEntries ==
    /\ [](\A s \in SignalNumbers :
            comsig.regs[s] = EntriesFor(comsig.ev_signal, s))
    /\ [][\A sig \in SignalNumbers, o \in BindOutcomes :
            call_comm_signal_bind(sig, o) =>
               IF o = "ok"
               THEN /\ comsig'.ret = 1
                    /\ comsig'.ev_signal = << sig >> \o comsig.ev_signal
                    /\ comsig'.regs =
                          [comsig.regs EXCEPT ![sig] = @ + 1]
               ELSE /\ comsig'.ret = 0
                    /\ comsig'.ev_signal = comsig.ev_signal
                    /\ comsig'.regs = comsig.regs]_vars
    /\ [][call_comm_signal_delete
            => \A s \in SignalNumbers : comsig'.regs[s] = 0]_vars
    /\ [][\A sig \in SignalNumbers :
            comm_signal_callback(sig) => EntriesFor(comsig.ev_signal, sig) > 0
         ]_vars

\* a relay with one signal bound twice, whose last comm_signal_bind failed
C28_BoundAfterFailedBind ==
    /\ comsig.exists
    /\ Len(comsig.ev_signal) = 2
    /\ \E s \in SignalNumbers : comsig.regs[s] = 2
    /\ comsig.ret = 0


\* ------------------------------------------------------- the raw comm point
\* C29: each call of the callback of a raw comm point has status
\* NETEVENT_TIMEOUT when the events include EV_TIMEOUT and NETEVENT_NOERROR
\* when they do not, never NETEVENT_CLOSED; comm_point_raw_handle_callback
\* leaves the fd of the comm point, and its event as the event base handed
\* it over, as they are.
C29_RawStatus ==
    /\ [](cb.c = RawId =>
            cb.status \in {NETEVENT_TIMEOUT, NETEVENT_NOERROR})
    /\ [][\A es \in SUBSET {EV_READ, EV_WRITE, EV_TIMEOUT} :
            comm_point_raw_handle_callback(es) =>
               /\ cb'.c = RawId
               /\ cb'.status = IF EV_TIMEOUT \in es THEN NETEVENT_TIMEOUT
                               ELSE NETEVENT_NOERROR
               /\ cb'.status # NETEVENT_CLOSED
               /\ ~cb'.reply
               /\ cp'[RawId].fd = cp[RawId].fd
               /\ open_fds' = open_fds
               /\ cp'[RawId].ev = event_delivered(cp[RawId].ev, es)
               /\ EV_TIMEOUT \notin es => cp'[RawId] = cp[RawId]]_vars
    /\ [][raw_callback_returns => cp' = cp /\ open_fds' = open_fds]_vars

\* the callback of a raw comm point that waits for writing is called for a
\* timeout, the fd of the comm point open
C29_RawTimeout ==
    /\ RawId \in Points
    /\ cb.c = RawId
    /\ cb.status = NETEVENT_TIMEOUT
    /\ EV_WRITE \in cp[RawId].ev.events
    /\ cp[RawId].fd = RawFd
    /\ RawFd \in open_fds


\* ------------------------------------------------------ non-blocking connect
\* the outcomes of comm_point_tcp_handle_write for comm point c when
\* SO_ERROR of its socket says error
WriteOutcomes(c, error) ==
    IF tcp_connect_check(c, error) = "write"
    THEN tcp_handle_write_bytes(c, have_writev, TRUE)
    ELSE {[next |-> tcp_connect_check(c, error), c |-> c, out |-> << >>]}

\* the outbound comm point is to make its first write: no byte of the query
\* is out and its connect was started non-blocking
FirstWrite(c) ==
    /\ c.fd # NoFd
    /\ c.ev.added /\ EV_WRITE \in c.ev.events
    /\ ~c.tcp_is_reading
    /\ c.tcp_byte_count = 0
    /\ c.tcp_check_nb_connect

\* C31: the first write of an outbound TCP comm point whose connect was
\* started non-blocking (tcp_byte_count 0) asks for the result of the
\* connect before it writes a byte: a connect in progress leaves the comm
\* point as it is, waiting; a failed connect (refused, host unreachable,
\* host down or another error) ends the connection, its callback called
\* with NETEVENT_CLOSED and no byte written; only with error 0 the frame
\* is written.
C31_ConnectChecked ==
    /\ [](OutId \in Points /\ FirstWrite(cp[OutId]) =>
            LET c == cp[OutId]
            IN  /\ tcp_handle_write(c, have_writev, TRUE) =
                     UNION {WriteOutcomes(c, e) : e \in ConnectResults}
                /\ WriteOutcomes(c, "inprogress") =
                     {[next |-> "ret1", c |-> c, out |-> << >>]}
                /\ WriteOutcomes(c, "failed") =
                     {[next |-> "ret0", c |-> c, out |-> << >>]}
                /\ \A e \in ConnectResults :
                     (\E s \in WriteOutcomes(c, e) : s.out # << >>)
                        <=> e = "connected"
                /\ \A s \in WriteOutcomes(c, "connected") :
                     IsPrefix(s.out, Frame(sent[OutId])))
    /\ [][(/\ OutId \in Points
           /\ FirstWrite(cp[OutId])
           /\ wire[OutId] = << >>
           /\ HandlesEvent(OutId, EV_WRITE)) =>
            \/ /\ cp' = cp /\ wire' = wire /\ cb' = cb
               /\ OutId \in live'
            \/ /\ OutId \notin live'
               /\ Told(OutId, NETEVENT_CLOSED)
               /\ cp'[OutId].fd = NoFd /\ ~cp'[OutId].ev.added
               /\ wire'[OutId] = << >>
            \/ /\ OutId \in live'
               /\ wire'[OutId] # << >>
               /\ IsPrefix(wire'[OutId], Frame(sent[OutId]))
               /\ cb' = cb]_vars

\* the callback of the outbound comm point is called with NETEVENT_CLOSED
\* when its first write had put no byte out
C31_ConnectFailed ==
    /\ OutId \in Points
    /\ cb.c = OutId
    /\ cb.status = NETEVENT_CLOSED
    /\ cp[OutId].fd = NoFd
    /\ cp[OutId].tcp_byte_count = 0
    /\ ~cp[OutId].tcp_is_reading
    /\ cp[OutId].tcp_check_nb_connect


\* ------------------------------------------------------ deleting a listener
\* C32: comm_point_delete of a TCP listener deletes each of its pooled
\* handlers, those on the free list and those that have a connection: the
\* descriptor of each is closed and its event removed from the event base,
\* and afterwards no event is handled and no callback entered for any
\* handler of that listener.
C32_ListenerDeleted ==
    /\ [][call_comm_point_delete =>
            /\ acc'.fd = NoFd /\ ~acc'.ev.added
            /\ acc.fd \notin open_fds'
            /\ \A p \in Handlers :
                /\ cp'[p].fd = NoFd
                /\ ~cp'[p].ev.added /\ ~cp'[p].ev.armed
                /\ cp[p].fd # NoFd => cp[p].fd \notin open_fds'
                /\ p \notin live']_vars
    /\ [](acc.fd = NoFd =>
            \A p \in Handlers :
                cp[p].fd = NoFd /\ ~cp[p].ev.added /\ p \notin live)
    /\ [][acc.fd = NoFd =>
            /\ \A p \in Handlers, e \in {EV_READ, EV_WRITE, EV_TIMEOUT} :
                    ~comm_point_tcp_handle_callback(p, e, FALSE)
            /\ cb' = cb /\ calls' = calls /\ cp' = cp]_vars

\* a deleted listener, one of whose handlers was on the free list and
\* another had a connection
C32_DeletedInUse ==
    /\ acc.fd = NoFd
    /\ open_fds = {}
    /\ \E p \in Handlers, q \in Handlers :
          /\ p \in FreeSet /\ q \notin FreeSet
          /\ cp[p].fd = NoFd /\ cp[q].fd = NoFd
          /\ ~cp[q].ev.added


\* ------------------------------------------------------ order of the free list
\* C33: the free list is last-in first-out: reclaim_tcp_handler puts the
\* handler at the head and the accept callback takes the head, so the
\* handler that gets the next connection is the one reclaimed last among
\* those still free.  Each step leaves the free list as it is and accepts
\* nothing, or puts a handler that was not on it at its head, or gives a new
\* connection to its head and takes the head off.
C33_FreeListLifo ==
    [][LET old == FreeList
           new == FreeList'
       IN  \/ /\ new = old
              /\ live' \subseteq live
           \/ /\ live' \subseteq live
              /\ new # << >>
              /\ \A i \in 1..Len(old) : old[i] # Head(new)
              /\ Tail(new) = old
           \/ /\ old # << >>
              /\ new = Tail(old)
              /\ live' = live \cup {Head(old)}
              /\ Head(old) \notin live]_vars

\* a pool of two whose handlers were both reclaimed, the first made last,
\* and a connection waits to be accepted
C33_LastReclaimedIsHead ==
    /\ num = 2
    /\ FreeList = << 1, 2 >>
    /\ pending > 0
    /\ acc.ev.added


\* -------------------------------------------------------- reclaiming twice
\* C34: reclaim_tcp_handler done on a handler that is on the free list
\* already (comm_point_drop_reply called from the callback that is told
\* CLOSED or TIMEOUT, after the handler was reclaimed) leaves the free list
\* as it is, so that no handler is on the free list twice and the list has
\* no cycle.
C34_ReclaimIdempotent ==
    /\ [][\A p \in Handlers :
            (p \in FreeSet /\ comm_point_drop_reply_when_ended(p))
                => FreeList' = FreeList]_vars
    /\ [](/\ Len(FreeList) <= num
          /\ \A i \in 1..Len(FreeList), j \in 1..Len(FreeList) :
                i # j => FreeList[i] # FreeList[j])


\* ------------------------------------------------------ timeouts of handlers
\* handler p has a connection and is in the event base, for reading or for
\* writing
Waits(p) == p \in live /\ cp[p].fd # NoFd /\ cp[p].ev.added

\* C35: whenever a pooled handler that has a connection is in the event base
\* for reading or for writing, a timeout is in the event base with it; so,
\* timeouts that have passed being handed out, a connection whose peer sends
\* no further byte and takes none does not keep its handler: the handler is
\* reclaimed and is on the free list again.  A handler that waits in the
\* event base leaves it only with a whole message for its callback, which
\* takes bytes of the peer, or when its connection ends.
C35_TimeoutArmed ==
    /\ [](\A p \in Handlers :
            (cp[p].fd # NoFd /\ cp[p].ev.added) =>
                /\ EV_TIMEOUT \in cp[p].ev.events
                /\ cp[p].ev.armed
                /\ cp[p].ev.tv_sec = TCP_QUERY_TIMEOUT)
    /\ [][\A p \in Handlers :
            comm_point_tcp_handle_callback(p, EV_TIMEOUT, TRUE) =>
                /\ p \in FreeSet'
                /\ cp'[p].fd = NoFd
                /\ p \notin live']_vars
    /\ [][\A p \in Handlers :
            (Waits(p) /\ ~Waits(p)' /\ p \in live') =>
                \/ cb'.c = p /\ cb'.status = NETEVENT_NOERROR
                      /\ HandlesEvent(p, EV_READ)
                \/ call_comm_point_close(p)]_vars
    /\ \A p \in 1..MaxPool :
            (p \in Handlers /\ Waits(p)) ~>
                (~Waits(p) /\ (p \in live \/ p \in FreeSet))

\* the timeout of a handler passed while it waited for the rest of a reply
\* to be taken: the handler is free again and its callback is told
C35_WriteTimedOut ==
    /\ cb.c \in Handlers
    /\ cb.status = NETEVENT_TIMEOUT
    /\ ~cp[cb.c].tcp_is_reading
    /\ cp[cb.c].tcp_byte_count > 0
    /\ cb.c \in FreeSet
    /\ cb.c \notin live


\* --------------------------------------------------- replies on a closed fd
\* C36: in the UDP loop no reply is sent from a comm point whose fd is -1:
\* when the callback has closed the comm point and returns true no send
\* call is made, so the send functions are never entered with fd -1.
C36_NoSendOnClosedFd ==
    /\ [](udp.snd.calls > 0 => udp.snd.fd # NoFd)
    /\ [][\A ret \in BOOLEAN, r \in {Fatal, Ok(0), Ok(1)} :
            udp_callback_returns(ret, "closes", r, FALSE)
                => udp'.snd = NoSend]_vars

\* C37: in the framed read path the recv of the message is only issued with
\* at least one byte remaining in the buffer, for every length the validation
\* accepts, length 0 on the local comm point included; and a message of
\* length 0 on the local comm point is not reported as a closed connection.
C37_BodyRecvHasRoom ==
    /\ [](\A p \in Points :
            (Idle /\ cp[p].ev.added /\ EV_READ \in cp[p].ev.events)
                => \A n \in BodyRecvs(cp[p], inq[p], p = LocalId, TRUE) : n > 0)
    /\ [](\A p \in Points :
            (/\ Idle /\ cp[p].ev.added /\ EV_READ \in cp[p].ev.events
             /\ cp[p].tcp_is_reading
             /\ cp[p].tcp_byte_count = PrefixSize
             /\ ldns_buffer_limit(cp[p].buffer) = 0
             /\ inq[p] # << >>)
                => \A r \in RecvResults(inq[p],
                              ldns_buffer_remaining(cp[p].buffer), TRUE)
                            \ {Fatal} :
                        tcp_read_body(cp[p], inq[p], r).next # "ret0")

\* C38: when only one of the two bytes of the length was accepted, the next
\* write sends the one remaining length byte followed by the payload, with
\* writev and with the send of a build without it, so that no length byte
\* is on the wire twice.
C38_ShortPrefixResumed ==
    [][\A p \in Handlers :
        (/\ cp[p].tcp_byte_count = 1
         /\ ~cp[p].tcp_is_reading
         /\ wire'[p] # wire[p]
         /\ comm_point_tcp_handle_callback(p, EV_WRITE, TRUE))
            => \E k \in 1..(Len(sent[p]) + 1) :
                  wire'[p] = wire[p] \o Take(Drop(Frame(sent[p]), 1), k)]_vars

\* C39: a comm_tcp point that comm_point_start_listening registered with the
\* event base is registered for exactly one direction, EV_READ when
\* tcp_is_reading is set and EV_WRITE when it is not; its handler is called
\* with EV_READ only in reading mode and with EV_WRITE only in writing mode.
C39_OneDirection ==
    /\ [](\A p \in Points :
            (cp[p].type = "comm_tcp" /\ cp[p].ev.added) =>
                cp[p].ev.events \cap {EV_READ, EV_WRITE} =
                    IF cp[p].tcp_is_reading THEN {EV_READ} ELSE {EV_WRITE})
    /\ [][\A p \in Handlers :
            /\ (~cp[p].tcp_is_reading =>
                    ~comm_point_tcp_handle_callback(p, EV_READ, TRUE))
            /\ (cp[p].tcp_is_reading =>
                    ~comm_point_tcp_handle_callback(p, EV_WRITE, TRUE))]_vars

\* a handler that read a message is registered for writing, part of its
\* reply on the wire
C39_WritingAfterReading ==
    \E p \in Handlers :
        /\ cp[p].ev.added
        /\ ~cp[p].tcp_is_reading
        /\ cp[p].ev.events \cap {EV_READ, EV_WRITE} = {EV_WRITE}
        /\ wire[p] # << >>
        /\ Len(calls[p]) > 0

\* C40: comm_timer_callback marks the timer as not enabled before it calls
\* the callback and writes nothing after it: when the callback calls
\* comm_timer_set on its own timer, the event base holds the new timeout and
\* comm_timer_is_set gives 1 while the callback runs on, when it returns and
\* after it, until the timer fires or is disabled.
C40_SetInCallbackStays ==
    /\ [][comm_timer_callback =>
            (timer'.incb /\ comm_timer_is_set(timer)' = 0
                /\ timer'.regs = 0)]_vars
    /\ [][(timer.incb /\ \E tv \in 1..MaxSec : call_comm_timer_set(tv)) =>
            (/\ timer'.incb
             /\ comm_timer_is_set(timer)' = 1
             /\ timer'.regs = 1
             /\ timer'.pending)]_vars
    /\ [][timer_callback_returns =>
            (/\ ~timer'.incb
             /\ comm_timer_is_set(timer)' = comm_timer_is_set(timer)
             /\ timer'.regs = timer.regs
             /\ timer'.pending = timer.pending
             /\ timer'.tv_sec = timer.tv_sec)]_vars

\* the callback of the timer runs and has set the timer again
C40_SetWhileFiring ==
    /\ timer.incb
    /\ timer.calls > 0
    /\ timer.sets > 1
    /\ timer.cancels = 0
    /\ comm_timer_is_set(timer) = 1
    /\ timer.regs = 1

====
